---------------------------- MODULE Spec2Model ----------------------------
(***************************************************************************)
(* Model of the lumina assistant backend: the conversation engine          *)
(* (app/chat.py), the MCP manager (app/mcp_manager.py), the AI-server      *)
(* tool handlers (app/tools/_mcp_servers.py) and the tool dispatcher       *)
(* (app/tools/_dispatch.py).                                               *)
(***************************************************************************)
EXTENDS Integers, Sequences, FiniteSets, TLC

(***************************************************************************)
(* Bounds of the exploration.                                              *)
(***************************************************************************)
MaxTurns == 2      \* send_message invocations per behaviour, alone
MaxBeats == 1      \* heartbeat invocations per behaviour
ConcTurns == 1     \* send_message invocations per behaviour, beside a heartbeat
MaxCalls == 2      \* tool calls in one model response
VarietyRounds == 1 \* leading rounds whose response may differ from one plain tool call
MaxOps == 3        \* tool calls on the AI servers per behaviour
MaxNodes == 2      \* syntax-tree nodes of a source handed to validate_code alone
MaxLen == 2        \* characters of a memory's content
MaxPatchLen == 3   \* characters of a memory that is patched
MaxOld == 2        \* characters of memory_patch's old_string and new_string
MaxChildren == 2   \* processes the shell of a run_command call starts
MaxRunSecs == 40   \* seconds a command runs when nothing stops it
MaxLog == 250      \* lines of a server's stderr log
MaxClock == 8      \* seconds on the monotonic clock
HeartbeatInterval == 2  \* the configured heartbeat interval, in seconds
IdleThreshold == 3      \* the configured idle threshold, in seconds
MaxRegs == 3       \* servers that connect before a routed call
MaxRaceOps == 2    \* start / stop / restart calls of each concurrent caller
MaxOfferRounds == 4 \* model calls of the turn whose offered tools are observed

(***************************************************************************)
(* Program constants.                                                      *)
(***************************************************************************)
MAX_TOOL_ROUNDS == 10
RUN_TIMEOUT == 30
LOG_CAP == 200
LOG_DEFAULT == 50

VARIABLES
    messages,      \* ChatHandler._messages: the session's message list
    lock,          \* ChatHandler._lock: "free" or the coroutine holding it
    cur,           \* the coroutine that owns the event loop, "none" at a suspension
    task,          \* per coroutine: position and locals of send_message / heartbeat
    turns,         \* send_message invocations still to come
    beats,         \* heartbeat invocations still to come
    mcp,           \* MCPManager fields
    disk,          \* state/mcp_servers: directories, server.py files, manifest.json
    last,          \* the last completed tool handler: operation, arguments, result
    boot,          \* statically configured servers not yet visited by MCPManager.start
    ops,           \* AI-server tool calls still to come
    life,          \* the process's phase: manifest revival, up, shutdown and its log
    probe,         \* handle_tool_call probe: the call and its outcome
    memories,      \* state/memories: the files, and the last memory call with its result
    pulse,         \* heartbeat.py: the module's globals, the clock and the loop's position
    race           \* MCPManager under concurrent callers: one AI server's tables, the subprocesses, each caller's position

chatVars == <<messages, lock, cur, task, turns, beats>>
mcpVars == <<mcp, disk, last, boot, ops, life>>
vars ==
    <<messages, lock, cur, task, turns, beats, mcp, disk, last, boot, ops, life, probe,
      memories, pulse, race>>

(***************************************************************************)
(* Conversation engine: messages.                                          *)
(***************************************************************************)
Tasks == {"user", "hb"}

None == <<"None">>
EmptyStr == <<>>
NoCalls == <<>>

Msg(role, content, tool_calls, tool_call_id) ==
    [role |-> role, content |-> content, tool_calls |-> tool_calls,
     tool_call_id |-> tool_call_id]

SystemMsg == Msg("system", <<"soul">>, NoCalls, None)
UserMsg(text) == Msg("user", text, NoCalls, None)
\* a reply stored under the role of a tool result
AssistantMsgAsTool(text) == Msg("tool", text, NoCalls, None)

AssistantMsg(text) == Msg("assistant", text, NoCalls, None)
\* a tool result that does not carry the id of its call
ToolResultMsgUnkeyed(tool_call_id, content) == Msg("tool", content, NoCalls, None)

\* choice.message.model_dump() of a response that requests tool calls
AssistantToolMsg(resp) == Msg("assistant", resp.content, resp.tool_calls, None)
ToolResultMsg(tool_call_id, content) == Msg("tool", content, NoCalls, tool_call_id)

FALLBACK == <<"I'm having trouble processing that request. Please try again.">>
Raised == <<"raised">>
MessageSent == <<"Message sent.">>

\* `x or ""` on the content of a plain-text response
OrEmpty(content) == IF content = None \/ content = EmptyStr THEN EmptyStr ELSE content

\* str.strip() on a text carried as [pad, body]: the surrounding blanks go
Strip(text) == [pad |-> FALSE, body |-> text.body]
Truthy(text) == text.pad \/ text.body # EmptyStr

(***************************************************************************)
(* Model responses (the chat-completion collaborator).                     *)
(***************************************************************************)
ToolCall(id, name, text) == [id |-> id, name |-> name, text |-> text]

NoText == [pad |-> FALSE, body |-> EmptyStr]
\* a text argument that is not a string (or arguments that are not an object)
NotAString == [pad |-> FALSE, body |-> <<"not-a-string">>]
\* the text argument of a send_message call issued with the given id:
\* a text with surrounding blanks, only blanks, not a string
SendTexts(id) ==
    { [pad |-> TRUE, body |-> <<"say", id>>], [pad |-> TRUE, body |-> EmptyStr], NotAString }

CallId(t, n, r, i) == <<t, n, r, i>>

\* one call of a response: a registered tool, or (heartbeat) send_message
CallChoices(t, id) ==
    { ToolCall(id, "tool", NoText) } \cup
    (IF t = "hb" THEN { ToolCall(id, "send_message", x) : x \in SendTexts(id) } ELSE {})

DefaultCalls(t, n, r) == << ToolCall(CallId(t, n, r, 1), "tool", NoText) >>

RECURSIVE CallListsOfLen(_, _, _, _)
CallListsOfLen(t, n, r, k) ==
    IF k = 0 THEN { NoCalls }
    ELSE { Append(cs, c) : cs \in CallListsOfLen(t, n, r, k - 1),
                           c \in CallChoices(t, CallId(t, n, r, k)) }

CallLists(t, n, r) == UNION { CallListsOfLen(t, n, r, k) : k \in 1..MaxCalls }

Resp(kind, finish, none, calls, content) ==
    [kind |-> kind, finish_reason |-> finish, tool_calls_none |-> none,
     tool_calls |-> calls, content |-> content]

\* responses that end the invocation (or the heartbeat loop): the call raises,
\* a reply without content, a reply, finish_reason tool_calls without a call list
FinalResponses(t, n, r) ==
    { Resp("raise", "error", TRUE, NoCalls, None),
      Resp("ok", "stop", TRUE, NoCalls, None),
      Resp("ok", "stop", TRUE, NoCalls, <<"reply", t, n>>),
      Resp("ok", "tool_calls", TRUE, NoCalls, None) }

\* the plain continuing response: one call of a registered tool
DefaultResponse(t, n, r) == Resp("ok", "tool_calls", FALSE, DefaultCalls(t, n, r), None)

\* responses after which the loop goes on
ToolResponses(t, n, r) ==
    IF r <= VarietyRounds
    THEN { Resp("ok", "tool_calls", FALSE, cs, None) : cs \in CallLists(t, n, r) } \cup
         { Resp("ok", "stop", FALSE, DefaultCalls(t, n, r), None),
           Resp("ok", "tool_calls", FALSE, NoCalls, None) }
    ELSE { DefaultResponse(t, n, r) }

Responses(t, n, r) == FinalResponses(t, n, r) \cup ToolResponses(t, n, r)

\* choice.finish_reason == "tool_calls" or choice.message.tool_calls
WantsTools(resp) ==
    resp.finish_reason = "tool_calls" \/ (~resp.tool_calls_none /\ resp.tool_calls # NoCalls)

(***************************************************************************)
(* Conversation engine: coroutine state.                                   *)
(***************************************************************************)
IdleTask ==
    [pc |-> "idle", n |-> 0, round |-> 0, model_calls |-> 0, ctx |-> <<>>,
     calls |-> NoCalls, idx |-> 0, text |-> EmptyStr, sent_messages |-> <<>>,
     result |-> None, dispatched |-> <<>>]

\* positions inside an `async with self._lock` block
LockedPcs == {"lock_user", "lock_reply", "lock_append"}

\* the coroutine t runs up to its next suspension point and reaches `new`
Step(t, new) ==
    /\ cur \in {"none", t}
    /\ (new.pc \in LockedPcs /\ lock # t) => lock = "free"
    /\ task' = [task EXCEPT ![t] = new]
    /\ lock' = IF new.pc \in LockedPcs THEN t ELSE IF lock = t THEN "free" ELSE lock
    /\ cur' = IF new.pc \in LockedPcs THEN t ELSE "none"

\* a loop that admits one iteration more than the limit
LoopContinuesInclusive(round) == round <= MAX_TOOL_ROUNDS

\* `for _ in range(MAX_TOOL_ROUNDS)`: another iteration after `round` of them
LoopContinues(round) == round < MAX_TOOL_ROUNDS

\* self._client.chat.completions.create(**kwargs) is issued
IssueModelCall(st) ==
    [st EXCEPT !.round = @ + 1, !.model_calls = @ + 1, !.pc = "await_model"]

Dispatch(st, c) ==
    [st EXCEPT !.pc = "await_tool",
               !.dispatched = Append(@, [id |-> c.id, name |-> c.name, done |-> FALSE])]

DispatchReturned(st) ==
    [st EXCEPT !.dispatched[Len(st.dispatched)].done = TRUE]

(***************************************************************************)
(* ChatHandler.send_message                                                *)
(***************************************************************************)
\* a circuit breaker that stores the fallback string as the reply
SendNextRoundStoresFallback(st) ==
    IF LoopContinues(st.round) THEN IssueModelCall(st)
    ELSE [st EXCEPT !.pc = "lock_reply", !.text = FALLBACK]

\* end of one loop iteration: next model call, or the circuit breaker
SendNextRound(st) ==
    IF LoopContinues(st.round) THEN IssueModelCall(st)
    ELSE [st EXCEPT !.pc = "returned", !.result = FALLBACK]

\* entry: `async with self._lock` acquires the lock
SendMessage(t) ==
    /\ t = "user"
    /\ task[t].pc = "idle"
    /\ turns > 0
    /\ turns' = turns - 1
    /\ Step(t, [IdleTask EXCEPT !.pc = "lock_user", !.n = turns,
                                !.text = <<"user", turns>>])
    /\ UNCHANGED <<messages, beats>>

\* append the user message, build the context, release, issue the first call
SendAppendUser(t) ==
    /\ task[t].pc = "lock_user"
    /\ messages' = Append(messages, UserMsg(task[t].text))
    /\ Step(t, IssueModelCall([task[t] EXCEPT !.ctx = <<SystemMsg>> \o messages']))
    /\ UNCHANGED <<turns, beats>>

SendOnResponse(st, resp) ==
    IF resp.kind = "raise" THEN [st EXCEPT !.pc = "returned", !.result = Raised]
    ELSE IF WantsTools(resp) THEN
        LET st1 == [st EXCEPT !.ctx = Append(@, AssistantToolMsg(resp))] IN
        IF resp.tool_calls_none THEN [st1 EXCEPT !.pc = "returned", !.result = Raised]
        ELSE IF resp.tool_calls = NoCalls THEN SendNextRound([st1 EXCEPT !.calls = NoCalls])
        ELSE [st1 EXCEPT !.calls = resp.tool_calls, !.idx = 1, !.pc = "await_notify"]
    ELSE [st EXCEPT !.text = OrEmpty(resp.content), !.pc = "lock_reply"]

\* the model call returns (or raises)
SendModelReturns(t) ==
    /\ t = "user"
    /\ task[t].pc = "await_model"
    /\ \E resp \in Responses(t, task[t].n, task[t].round) :
          Step(t, SendOnResponse(task[t], resp))
    /\ UNCHANGED <<messages, turns, beats>>

\* self._notify_tool_call returned: the dispatcher is invoked
SendNotifyReturns(t) ==
    /\ task[t].pc = "await_notify"
    /\ Step(t, Dispatch(task[t], task[t].calls[task[t].idx]))
    /\ UNCHANGED <<messages, turns, beats>>

SendOnToolResult(st, ok) ==
    IF ~ok THEN [st EXCEPT !.pc = "returned", !.result = Raised]
    ELSE LET c == st.calls[st.idx]
             st1 == [DispatchReturned(st) EXCEPT
                        !.ctx = Append(@, ToolResultMsg(c.id, <<"result", c.id>>))]
         IN IF st.idx < Len(st.calls)
            THEN [st1 EXCEPT !.idx = @ + 1, !.pc = "await_notify"]
            ELSE SendNextRound(st1)

\* self._handle_tool_call returned a string (or raised)
SendToolReturns(t) ==
    /\ t = "user"
    /\ task[t].pc = "await_tool"
    /\ \E ok \in BOOLEAN : Step(t, SendOnToolResult(task[t], ok))
    /\ UNCHANGED <<messages, turns, beats>>

\* second `async with self._lock`: append the reply and return it
SendAppendReply(t) ==
    /\ task[t].pc = "lock_reply"
    /\ messages' = Append(messages, AssistantMsg(task[t].text))
    /\ Step(t, [task[t] EXCEPT !.pc = "returned", !.result = task[t].text])
    /\ UNCHANGED <<turns, beats>>

\* the caller has the result; the coroutine is gone
TaskDone(t) ==
    /\ task[t].pc = "returned"
    /\ Step(t, IdleTask)
    /\ UNCHANGED <<messages, turns, beats>>

(***************************************************************************)
(* ChatHandler.heartbeat                                                   *)
(***************************************************************************)
\* HEARTBEAT_PATH: no file, a blank file, a prompt
HeartbeatPrompts == {"missing", "blank", "prompt"}

\* an end that returns None whatever has been accumulated
HbEndDiscards(st) == [st EXCEPT !.pc = "returned", !.result = None]

\* after the try block: append under the lock, or return None at once
HbEnd(st) ==
    IF st.sent_messages # <<>> THEN [st EXCEPT !.pc = "lock_append"]
    ELSE [st EXCEPT !.pc = "returned", !.result = None]

HbNextRound(st) ==
    IF LoopContinues(st.round) THEN IssueModelCall(st) ELSE HbEnd(st)

\* an accumulation that puts the newest text first
HbAccumulateFront(sent, text) == <<text>> \o sent

\* sent_messages.append(text) for a non-empty stripped text
HbAccumulate(sent, text) == Append(sent, text)

\* the tool calls of one response from st.idx on, up to the next suspension:
\* send_message calls are answered in place, any other call is dispatched
RECURSIVE HbRun(_)
HbRun(st) ==
    IF st.idx > Len(st.calls) THEN HbNextRound(st)
    ELSE LET c == st.calls[st.idx] IN
         IF c.name = "send_message" THEN
             IF c.text = NotAString THEN HbEnd(st)
             ELSE LET text == Strip(c.text) IN
                  HbRun([st EXCEPT
                      !.sent_messages = IF Truthy(text) THEN HbAccumulate(@, text.body) ELSE @,
                      !.ctx = Append(@, ToolResultMsg(c.id, MessageSent)),
                      !.idx = @ + 1])
         ELSE Dispatch(st, c)

\* entry: read the prompt, build the context, issue the first call
Heartbeat(t) ==
    /\ t = "hb"
    /\ task[t].pc = "idle"
    /\ beats > 0
    /\ beats' = beats - 1
    /\ \E prompt \in HeartbeatPrompts :
          LET st == [IdleTask EXCEPT !.n = beats] IN
          IF prompt = "prompt"
          THEN Step(t, IssueModelCall([st EXCEPT
                          !.ctx = <<SystemMsg, UserMsg(<<"heartbeat">>)>>]))
          ELSE Step(t, [st EXCEPT !.pc = "returned", !.result = None])
    /\ UNCHANGED <<messages, turns>>

HbOnResponse(st, resp) ==
    IF resp.kind = "raise" THEN HbEnd(st)
    ELSE IF ~WantsTools(resp) THEN HbEnd(st)
    ELSE LET st1 == [st EXCEPT !.ctx = Append(@, AssistantToolMsg(resp))] IN
         IF resp.tool_calls_none THEN HbEnd(st1)
         ELSE HbRun([st1 EXCEPT !.calls = resp.tool_calls, !.idx = 1])

HbModelReturns(t) ==
    /\ t = "hb"
    /\ task[t].pc = "await_model"
    /\ \E resp \in Responses(t, task[t].n, task[t].round) :
          Step(t, HbOnResponse(task[t], resp))
    /\ UNCHANGED <<messages, turns, beats>>

HbOnToolResult(st, ok) ==
    IF ~ok THEN HbEnd(st)
    ELSE LET c == st.calls[st.idx] IN
         HbRun([DispatchReturned(st) EXCEPT
                   !.ctx = Append(@, ToolResultMsg(c.id, <<"result", c.id>>)),
                   !.idx = @ + 1])

HbToolReturns(t) ==
    /\ t = "hb"
    /\ task[t].pc = "await_tool"
    /\ \E ok \in BOOLEAN : Step(t, HbOnToolResult(task[t], ok))
    /\ UNCHANGED <<messages, turns, beats>>

RECURSIVE AppendAll(_, _)
\* for text in sent_messages: self._messages.append(assistant message)
AppendAll(msgs, texts) ==
    IF texts = <<>> THEN msgs
    ELSE AppendAll(Append(msgs, AssistantMsg(Head(texts))), Tail(texts))

\* `async with self._lock`: append every accumulated text, return the list
HbAppend(t) ==
    /\ task[t].pc = "lock_append"
    /\ messages' = AppendAll(messages, task[t].sent_messages)
    /\ Step(t, [task[t] EXCEPT !.pc = "returned", !.result = task[t].sent_messages])
    /\ UNCHANGED <<turns, beats>>

(***************************************************************************)
(* ChatHandler.clear_history                                               *)
(***************************************************************************)
ClearHistory ==
    /\ cur = "none"
    /\ messages # <<>>
    /\ messages' = <<>>
    /\ UNCHANGED <<lock, cur, task, turns, beats>>

(***************************************************************************)
(* Specification of the conversation engine.                               *)
(***************************************************************************)
InitEngine ==
    /\ messages = <<>>
    /\ lock = "free"
    /\ cur = "none"
    /\ task = [t \in Tasks |-> IdleTask]

NextSend ==
    \/ SendMessage("user") /\ UNCHANGED <<mcpVars, probe, memories, pulse, race>>
    \/ SendAppendUser("user") /\ UNCHANGED <<mcpVars, probe, memories, pulse, race>>
    \/ SendModelReturns("user") /\ UNCHANGED <<mcpVars, probe, memories, pulse, race>>
    \/ SendNotifyReturns("user") /\ UNCHANGED <<mcpVars, probe, memories, pulse, race>>
    \/ SendToolReturns("user") /\ UNCHANGED <<mcpVars, probe, memories, pulse, race>>
    \/ SendAppendReply("user") /\ UNCHANGED <<mcpVars, probe, memories, pulse, race>>
    \/ TaskDone("user") /\ UNCHANGED <<mcpVars, probe, memories, pulse, race>>

NextHb ==
    \/ Heartbeat("hb") /\ UNCHANGED <<mcpVars, probe, memories, pulse, race>>
    \/ HbModelReturns("hb") /\ UNCHANGED <<mcpVars, probe, memories, pulse, race>>
    \/ HbToolReturns("hb") /\ UNCHANGED <<mcpVars, probe, memories, pulse, race>>
    \/ HbAppend("hb") /\ UNCHANGED <<mcpVars, probe, memories, pulse, race>>
    \/ TaskDone("hb") /\ UNCHANGED <<mcpVars, probe, memories, pulse, race>>

NextChat ==
    \/ NextSend
    \/ NextHb
    \/ ClearHistory /\ UNCHANGED <<mcpVars, probe, memories, pulse, race>>

(***************************************************************************)
(* Sandbox validator (app/sandbox.py).  Source code is carried as its      *)
(* syntax tree: a sequence of nodes in ast.walk order.                     *)
(***************************************************************************)
ALLOWED_MODULES ==
    {"mcp", "json", "datetime", "math", "re", "collections", "typing", "dataclasses",
     "enum", "time", "string", "random", "itertools", "functools", "hashlib", "base64",
     "textwrap", "uuid", "decimal", "fractions", "statistics", "operator", "copy",
     "pprint", "io", "struct", "abc", "contextlib", "logging"}
NETWORK_MODULES ==
    {"socket", "urllib", "http", "requests", "httpx", "aiohttp", "ssl", "ftplib",
     "smtplib", "imaplib", "poplib", "xmlrpc"}
DANGEROUS_CALLS == {"eval", "exec", "compile", "__import__", "breakpoint", "exit", "quit"}
DANGEROUS_ATTRS ==
    {"__class__", "__bases__", "__subclasses__", "__mro__", "__globals__", "__code__",
     "__builtins__"}

\* name: the top-level name of the imported module ("" for `from . import x`,
\* whose node.module is None), the called name, the accessed attribute
Node(type, name, lineno) == [type |-> type, name |-> name, lineno |-> lineno]

\* a module check that never unlocks the network modules
CheckModuleLocked(base, allow_network, lineno) ==
    IF base \in ALLOWED_MODULES THEN <<>>
    ELSE << <<lineno, "not allowed", base>> >>

\* _check_module, on the top-level name of the module: the errors it adds
CheckModule(base, allow_network, lineno) ==
    IF base \in ALLOWED_MODULES THEN <<>>
    ELSE IF base \in NETWORK_MODULES
         THEN IF ~allow_network THEN << <<lineno, "requires allow_network", base>> >>
              ELSE <<>>
         ELSE << <<lineno, "not allowed", base>> >>

\* errors.append(...) across the nodes of the walk
JoinErrors(first, rest) == first \o rest

NodeErrors(node, allow_network) ==
    IF node.type = "ImportFrom" /\ node.name = "" THEN <<>>
    ELSE IF node.type \in {"Import", "ImportFrom"}
    THEN CheckModule(node.name, allow_network, node.lineno)
    ELSE IF node.type = "Call"
         THEN IF node.name \in DANGEROUS_CALLS
              THEN << <<node.lineno, "forbidden call", node.name>> >> ELSE <<>>
         ELSE IF node.type = "Attribute" /\ node.name \in DANGEROUS_ATTRS
              THEN << <<node.lineno, "forbidden access", node.name>> >> ELSE <<>>

RECURSIVE WalkErrors(_, _)
WalkErrors(nodes, allow_network) ==
    IF nodes = <<>> THEN <<>>
    ELSE JoinErrors(NodeErrors(Head(nodes), allow_network),
                    WalkErrors(Tail(nodes), allow_network))

\* validate_code: (ok, errors)
\* a validator that accepts whatever parses
ValidateCodeLax(code, allow_network) ==
    IF ~code.parses THEN [ok |-> FALSE, errors |-> << <<1, "syntax error", "">> >>]
    ELSE [ok |-> TRUE, errors |-> <<>>]

ValidateCode(code, allow_network) ==
    IF ~code.parses THEN [ok |-> FALSE, errors |-> << <<1, "syntax error", "">> >>]
    ELSE LET errors == WalkErrors(code.nodes, allow_network) IN
         [ok |-> errors = <<>>, errors |-> errors]

(***************************************************************************)
(* Server sources the model submits, and the tools each one declares.      *)
(***************************************************************************)
Code(id, blank, parses, nodes, tools) ==
    [id |-> id, blank |-> blank, parses |-> parses, nodes |-> nodes, tools |-> tools]

CodeX == Code("x", FALSE, TRUE, <<Node("ImportFrom", "mcp", 1)>>, <<"x">>)
CodeXY == Code("xy", FALSE, TRUE,
               <<Node("ImportFrom", "mcp", 1), Node("Import", "json", 2)>>, <<"x", "y">>)
CodeNet == Code("net", FALSE, TRUE,
                <<Node("ImportFrom", "mcp", 1), Node("Import", "socket", 2)>>, <<"x">>)
CodeEval == Code("eval", FALSE, TRUE,
                 <<Node("Import", "os", 1), Node("Call", "eval", 2),
                   Node("Attribute", "__globals__", 3)>>, <<"x">>)
CodeSyntax == Code("syntax", FALSE, FALSE, <<>>, <<>>)
CodeBlank == Code("blank", TRUE, TRUE, <<>>, <<>>)

Codes == {CodeX, CodeXY, CodeNet, CodeEval, CodeSyntax, CodeBlank}

(***************************************************************************)
(* MCP manager (app/mcp_manager.py).                                       *)
(***************************************************************************)
EmptyDict == [k \in {} |-> 0]
Put(d, k, v) == [x \in DOMAIN d \cup {k} |-> IF x = k THEN v ELSE d[x]]
Pop(d, k) == [x \in DOMAIN d \ {k} |-> d[x]]

\* MCPManager.__init__
NewManager ==
    [sessions |-> {}, tools |-> EmptyDict, ai_sessions |-> {}, ai_exit_stacks |-> {},
     ai_stderr_files |-> {}, ai_tools |-> EmptyDict]

\* the configuration's mcp_servers, in order, and the tools each one exposes
StaticServers == <<"s">>
StaticTools(name) == <<"y">>

RECURSIVE RegisterTools(_, _, _)
\* for tool in result.tools: self._tools[tool.name] = (name, schema)
RegisterTools(tools, name, names) ==
    IF names = <<>> THEN tools
    ELSE RegisterTools(Put(tools, Head(names), name), name, Tail(names))

RECURSIVE RemoveTools(_, _)
\* for tool_name in ...: self._tools.pop(tool_name, None)
RemoveTools(tools, names) ==
    IF names = <<>> THEN tools
    ELSE RemoveTools(Pop(tools, Head(names)), Tail(names))

\* how a subprocess connection attempt ends: connected and tools listed,
\* stdio_client / ClientSession / initialize raises, list_tools raises
Outcomes == {"ok", "connect_fails", "list_tools_fails"}

\* MCPManager._connect_server
ConnectServer(m, name, outcome) ==
    IF outcome = "connect_fails" THEN m
    ELSE LET m1 == [m EXCEPT !.sessions = @ \cup {name}] IN
         IF outcome = "list_tools_fails" THEN m1
         ELSE [m1 EXCEPT !.tools = RegisterTools(@, name, StaticTools(name))]

\* a running check that never sees a server
IsAiServerRunningNever(m, name) == FALSE

\* MCPManager.is_ai_server_running
IsAiServerRunning(m, name) == name \in m.ai_sessions

\* MCPManager.start_ai_server: the manager afterwards, whether it raised,
\* and the tool names it returns
StartAiServer(m, d, name, allow_network, outcome) ==
    IF name \in m.ai_sessions
    THEN [mcp |-> m, raised |-> TRUE, error |-> "already running", tools |-> <<>>]
    ELSE IF name \notin DOMAIN d.server_py
    THEN [mcp |-> m, raised |-> TRUE, error |-> "script not found", tools |-> <<>>]
    ELSE LET m1 == [m EXCEPT !.ai_stderr_files = @ \cup {name}] IN
         IF outcome = "connect_fails"
         THEN [mcp |-> m1, raised |-> TRUE, error |-> outcome, tools |-> <<>>]
         ELSE LET m2 == [m1 EXCEPT !.ai_exit_stacks = @ \cup {name},
                                   !.ai_sessions = @ \cup {name}] IN
              IF outcome = "list_tools_fails"
              THEN [mcp |-> m2, raised |-> TRUE, error |-> outcome, tools |-> <<>>]
              ELSE LET tool_names == d.server_py[name].tools IN
                   [mcp |-> [m2 EXCEPT !.tools = RegisterTools(@, name, tool_names),
                                       !.ai_tools = Put(@, name, tool_names)],
                    raised |-> FALSE, error |-> "", tools |-> tool_names]

\* a stop that leaves the manager as it was
StopAiServerKeeps(m, name) == [mcp |-> m, was_running |-> FALSE]

\* self._ai_tools.pop(name, [])
PopAiTools(m, name) == IF name \in DOMAIN m.ai_tools THEN m.ai_tools[name] ELSE <<>>

\* MCPManager.stop_ai_server: the manager afterwards and the returned flag
StopAiServer(m, name) ==
    IF name \notin m.ai_sessions THEN [mcp |-> m, was_running |-> FALSE]
    ELSE [mcp |-> [m EXCEPT !.tools = RemoveTools(@, PopAiTools(m, name)),
                            !.ai_tools = Pop(@, name),
                            !.ai_sessions = @ \ {name},
                            !.ai_exit_stacks = @ \ {name}],
          was_running |-> TRUE]

\* a lookup that finds a static session for every name
SessionOfAlways(m, server_name) == "static"

\* self._sessions.get(server_name) or self._ai_sessions.get(server_name):
\* the connection table the session comes from, "none" when neither has one
SessionOf(m, server_name) ==
    IF server_name \in m.sessions THEN "static"
    ELSE IF server_name \in m.ai_sessions THEN "ai"
    ELSE "none"

\* MCPManager.call_tool: whether it returns or raises, what it returns, and
\* the connection (table, server) the call went to
McpCallTool(m, name, call_fails) ==
    IF name \notin DOMAIN m.tools
    THEN [outcome |-> "string", result |-> "Error: unknown MCP tool", via |-> <<>>]
    ELSE LET server_name == m.tools[name] IN
         IF SessionOf(m, server_name) = "none"
         THEN [outcome |-> "string", result |-> "Error: MCP server is not connected",
               via |-> <<>>]
         ELSE [outcome |-> IF call_fails THEN "raises" ELSE "string",
               result |-> IF call_fails THEN "" ELSE "text",
               via |-> <<SessionOf(m, server_name), server_name>>]

(***************************************************************************)
(* AI-server tool handlers (app/tools/_mcp_servers.py).                    *)
(***************************************************************************)
\* the name arguments the model passes, and their characters
NameArgs == {"a", "s", " a ", "", "9x"}
Chars(s) ==
    CASE s = "a" -> <<"a">>
      [] s = "s" -> <<"s">>
      [] s = " a " -> <<" ", "a", " ">>
      [] s = "" -> <<>>
      [] s = "9x" -> <<"9", "x">>
Letters == {"a", "s", "x"}
Digits == {"9"}

RECURSIVE LStrip(_)
LStrip(cs) == IF cs # <<>> /\ Head(cs) = " " THEN LStrip(Tail(cs)) ELSE cs
RECURSIVE RStrip(_)
RStrip(cs) ==
    IF cs # <<>> /\ cs[Len(cs)] = " " THEN RStrip(SubSeq(cs, 1, Len(cs) - 1)) ELSE cs
StripChars(cs) == RStrip(LStrip(cs))

\* re.match(r"^[a-zA-Z][a-zA-Z0-9_]*$", name)
MatchesName(cs) ==
    /\ cs # <<>>
    /\ cs[1] \in Letters
    /\ \A i \in 2..Len(cs) : cs[i] \in Letters \cup Digits \cup {"_"}

\* _safe_name: the stripped name, or the ValueError
SafeName(arg) ==
    LET cs == StripChars(Chars(arg)) IN
    IF cs = <<>> THEN [ok |-> FALSE, name |-> "", error |-> "Error: name is required"]
    ELSE IF ~MatchesName(cs) THEN [ok |-> FALSE, name |-> "", error |-> "Error: bad name"]
    ELSE [ok |-> TRUE, name |-> CHOOSE n \in NameArgs : Chars(n) = cs, error |-> ""]

\* state/mcp_servers before any server was created
NewDisk == [dirs |-> {}, server_py |-> EmptyDict, manifest |-> EmptyDict]

Meta(description, allow_network, auto_start, created_at, modified_at) ==
    [description |-> description, allow_network |-> allow_network,
     auto_start |-> auto_start, created_at |-> created_at, modified_at |-> modified_at]

\* manifest.get(name, {}).get("allow_network", False)
MetaAllowNetwork(d, name) ==
    IF name \in DOMAIN d.manifest THEN d.manifest[name].allow_network ELSE FALSE

Outcome(m, d, result, calls) == [mcp |-> m, disk |-> d, result |-> result, calls |-> calls]

\* handle_mcp_server_create
HandleCreate(m, d, args, network_allowed, now, outcome) ==
    LET sn == SafeName(args.name) IN
    IF ~sn.ok THEN Outcome(m, d, sn.error, <<>>)
    ELSE IF args.code.blank THEN Outcome(m, d, "Error: code is required.", <<>>)
    ELSE
    LET name == sn.name
        allow_network == args.allow_network /\ network_allowed
    IN
    IF name \in d.dirs THEN Outcome(m, d, "Error: server already exists.", <<>>)
    ELSE IF ~ValidateCode(args.code, allow_network).ok
    THEN Outcome(m, d, "Code validation failed", <<>>)
    ELSE
    LET d1 == [d EXCEPT !.dirs = @ \cup {name},
                        !.server_py = Put(@, name, args.code),
                        !.manifest = Put(@, name, Meta(args.description, allow_network,
                                                       args.auto_start, now, now))]
    IN
    IF args.auto_start
    THEN LET r == StartAiServer(m, d1, name, allow_network, outcome) IN
         Outcome(r.mcp, d1,
                 IF r.raised THEN "created but failed to start" ELSE "created and started",
                 <<"write", "start_ai_server">>)
    ELSE Outcome(m, d1, "created (not started)", <<"write">>)

\* (server_dir / "server.py").write_text(code) and the manifest update of edit
WriteEdit(d, name, code, now) ==
    LET meta == IF name \in DOMAIN d.manifest
                THEN [d.manifest[name] EXCEPT !.modified_at = now]
                ELSE [modified_at |-> now]
    IN [d EXCEPT !.server_py = Put(@, name, code),
                 !.manifest = Put(@, name, meta)]

\* handle_mcp_server_edit
HandleEdit(m, d, args, now, outcome) ==
    LET sn == SafeName(args.name) IN
    IF ~sn.ok THEN Outcome(m, d, sn.error, <<>>)
    ELSE IF args.code.blank THEN Outcome(m, d, "Error: code is required.", <<>>)
    ELSE
    LET name == sn.name IN
    IF name \notin d.dirs THEN Outcome(m, d, "Error: server does not exist.", <<>>)
    ELSE
    LET allow_network == MetaAllowNetwork(d, name) IN
    IF ~ValidateCode(args.code, allow_network).ok
    THEN Outcome(m, d, "Code validation failed", <<>>)
    ELSE
    LET was_running == IsAiServerRunning(m, name)
        m1 == IF was_running THEN StopAiServer(m, name).mcp ELSE m
        d1 == WriteEdit(d, name, args.code, now)
    IN
    IF was_running
    THEN LET r == StartAiServer(m1, d1, name, allow_network, outcome) IN
         Outcome(r.mcp, d1,
                 IF r.raised THEN "updated but failed to restart"
                 ELSE "updated and restarted",
                 <<"stop_ai_server", "write", "start_ai_server">>)
    ELSE Outcome(m1, d1, "updated (not running)", <<"write">>)

\* handle_mcp_server_delete
HandleDelete(m, d, args) ==
    LET sn == SafeName(args.name) IN
    IF ~sn.ok THEN Outcome(m, d, sn.error, <<>>)
    ELSE
    LET name == sn.name IN
    IF name \notin d.dirs THEN Outcome(m, d, "Error: server does not exist.", <<>>)
    ELSE Outcome(StopAiServer(m, name).mcp,
                 [d EXCEPT !.dirs = @ \ {name},
                           !.server_py = Pop(@, name),
                           !.manifest = Pop(@, name)],
                 "deleted", <<"stop_ai_server", "rmtree">>)

\* handle_mcp_server_start
HandleStart(m, d, args, outcome) ==
    LET sn == SafeName(args.name) IN
    IF ~sn.ok THEN Outcome(m, d, sn.error, <<>>)
    ELSE
    LET name == sn.name IN
    IF IsAiServerRunning(m, name) THEN Outcome(m, d, "is already running.", <<>>)
    ELSE IF name \notin d.dirs THEN Outcome(m, d, "Error: server does not exist.", <<>>)
    ELSE LET r == StartAiServer(m, d, name, MetaAllowNetwork(d, name), outcome) IN
         Outcome(r.mcp, d, IF r.raised THEN "Failed to start server" ELSE "started",
                 <<"start_ai_server">>)

\* a stop that records in the manifest that the server is not to be started
\* again
HandleStopClearsAutoStart(m, d, args) ==
    LET sn == SafeName(args.name) IN
    IF ~sn.ok THEN Outcome(m, d, sn.error, <<>>)
    ELSE
    LET name == sn.name IN
    IF ~IsAiServerRunning(m, name) THEN Outcome(m, d, "is not running.", <<>>)
    ELSE Outcome(StopAiServer(m, name).mcp,
                 IF name \in DOMAIN d.manifest
                 THEN [d EXCEPT !.manifest[name].auto_start = FALSE] ELSE d,
                 "stopped", <<"stop_ai_server">>)

\* handle_mcp_server_stop
HandleStop(m, d, args) ==
    LET sn == SafeName(args.name) IN
    IF ~sn.ok THEN Outcome(m, d, sn.error, <<>>)
    ELSE
    LET name == sn.name IN
    IF ~IsAiServerRunning(m, name) THEN Outcome(m, d, "is not running.", <<>>)
    ELSE Outcome(StopAiServer(m, name).mcp, d, "stopped", <<"stop_ai_server">>)

(***************************************************************************)
(* The manager and the handlers as steps of the running process.           *)
(***************************************************************************)
NoCall == [op |-> "none", name |-> "", code |-> "", result |-> "", calls |-> <<>>]

\* datetime.now(timezone.utc): the wall clock advances with every tool call
Now == MaxOps - ops + 1

Completed(op, name, code, r) ==
    /\ mcp' = r.mcp
    /\ disk' = r.disk
    /\ last' = [op |-> op, name |-> SafeName(name).name, code |-> code,
                result |-> r.result, calls |-> r.calls]
    /\ ops' = ops - 1
    /\ UNCHANGED <<boot, life>>

\* the process is up and a tool round dispatches one more call
Serving == boot = <<>> /\ life.phase = "up" /\ ops > 0

\* MCPManager.start: the next configured server is connected (or fails, logged)
StartStatic ==
    /\ boot # <<>>
    /\ \E outcome \in Outcomes : mcp' = ConnectServer(mcp, Head(boot), outcome)
    /\ boot' = Tail(boot)
    /\ UNCHANGED <<disk, last, ops, life>>

CreateArgs ==
    [name : NameArgs, code : Codes, description : {"d"}, allow_network : BOOLEAN,
     auto_start : BOOLEAN]
EditArgs == [name : NameArgs, code : Codes]
NameOnly == [name : NameArgs]

\* the outcomes of the connection attempt a call makes; one when it makes none
OutcomesIf(starts) == IF starts THEN Outcomes ELSE {"ok"}

\* the dispatcher's mcp_server_create branch: network_allowed is not passed
ToolCreate ==
    /\ Serving
    /\ \E args \in CreateArgs :
          \E outcome \in OutcomesIf(args.auto_start /\ SafeName(args.name).ok) :
             Completed("create", args.name, args.code.id,
                       HandleCreate(mcp, disk, args, FALSE, Now, outcome))

ToolEdit ==
    /\ Serving
    /\ \E args \in EditArgs :
          \E outcome \in OutcomesIf(IsAiServerRunning(mcp, SafeName(args.name).name)) :
             Completed("edit", args.name, args.code.id,
                       HandleEdit(mcp, disk, args, Now, outcome))

ToolDelete ==
    /\ Serving
    /\ \E args \in NameOnly :
          Completed("delete", args.name, "", HandleDelete(mcp, disk, args))

ToolStart ==
    /\ Serving
    /\ \E args \in NameOnly :
          \E outcome \in OutcomesIf(SafeName(args.name).name \in disk.dirs) :
             Completed("start", args.name, "", HandleStart(mcp, disk, args, outcome))

ToolStop ==
    /\ Serving
    /\ \E args \in NameOnly :
          Completed("stop", args.name, "", HandleStop(mcp, disk, args))

\* run_command removing a server.py behind the handlers' back
RemoveServerPy ==
    /\ Serving
    /\ \E name \in DOMAIN disk.server_py :
          Completed("run_command", name, "",
                    Outcome(mcp, [disk EXCEPT !.server_py = Pop(@, name)], "removed", <<>>))

(***************************************************************************)
(* MCPManager.shutdown, at the end of the process.                         *)
(***************************************************************************)
\* the process serves requests: nothing to revive, no shutdown under way
Up == [phase |-> "up", todo |-> {}, snap |-> {}, log |-> <<>>]

\* a stop during shutdown whose close raises and is not caught
ShutdownStoppedAborts(m, name, close_raised) ==
    IF close_raised THEN m ELSE StopAiServer(m, name).mcp

\* await self.stop_ai_server(name) inside shutdown: an exception of
\* stack.aclose() is caught and logged by stop_ai_server
ShutdownStopped(m, name, close_raised) == StopAiServer(m, name).mcp

\* shutdown is entered: `list(self._ai_sessions)` is taken
Shutdown ==
    /\ boot = <<>>
    /\ life.phase = "up"
    /\ life' = [phase |-> "stopping", todo |-> mcp.ai_sessions,
                snap |-> mcp.ai_sessions, log |-> <<>>]
    /\ UNCHANGED <<mcp, disk, last, boot, ops>>

\* one iteration of `for name in list(self._ai_sessions)`
ShutdownStop ==
    /\ life.phase = "stopping"
    /\ \E name \in life.todo, close_raised \in BOOLEAN :
          /\ mcp' = ShutdownStopped(mcp, name, close_raised)
          /\ life' = [life EXCEPT !.todo = @ \ {name},
                                  !.log = Append(@, <<"stop_ai_server", name, close_raised>>)]
    /\ UNCHANGED <<disk, last, boot, ops>>

\* after the loop: the stderr table is cleared, the static exit stack is
\* closed and, unless that raises, the static tables are cleared
ShutdownClose ==
    /\ life.phase = "stopping"
    /\ life.todo = {}
    /\ \E close_raised \in BOOLEAN :
          /\ mcp' = IF close_raised THEN [mcp EXCEPT !.ai_stderr_files = {}]
                    ELSE [mcp EXCEPT !.ai_stderr_files = {}, !.sessions = {},
                                     !.tools = EmptyDict]
          /\ life' = [life EXCEPT !.phase = IF close_raised THEN "raised" ELSE "done",
                                  !.log = Append(@, <<"close_static", "", close_raised>>)]
    /\ UNCHANGED <<disk, last, boot, ops>>

\* the names the model may call as MCP tools
ToolNames == {"x", "y", "z"}

\* the dispatcher's last branch: a tool of the manager's table is called
CallMcpTool ==
    /\ Serving
    /\ \E name \in { tn \in ToolNames : tn \in DOMAIN mcp.tools } :
          \E call_fails \in BOOLEAN :
             LET r == McpCallTool(mcp, name, call_fails) IN
             last' = [op |-> "call_tool", name |-> name, code |-> r.outcome,
                      result |-> r.result, calls |-> r.via]
    /\ ops' = ops - 1
    /\ UNCHANGED <<mcp, disk, boot, life>>

InitMcp ==
    /\ mcp = NewManager
    /\ disk = NewDisk
    /\ last = NoCall
    /\ boot = StaticServers
    /\ ops = MaxOps
    /\ life = Up

(***************************************************************************)
(* Tool dispatcher (app/tools/_dispatch.py): what one call ends in.        *)
(***************************************************************************)
MemoryFileTools ==
    {"memory_create", "memory_read", "memory_edit", "memory_delete", "memory_patch"}
StateTools == {"state_set", "state_get", "state_list", "state_check_time"}
VectorTools == {"vector_save", "vector_search", "vector_delete", "vector_list"}
McpServerTools ==
    {"mcp_server_create", "mcp_server_edit", "mcp_server_delete", "mcp_server_list",
     "mcp_server_start", "mcp_server_stop", "mcp_server_logs"}
DispatchNames ==
    {"get_animations", "get_backgrounds", "play_animation", "memory_list",
     "set_background", "web_search", "run_command", "mcp_tool", "no_such_tool"}
    \cup MemoryFileTools \cup StateTools \cup VectorTools \cup McpServerTools

\* the arguments: a JSON object or another JSON value, and the value under the
\* key the handler reads first (name, filename, key, query, command, id)
ValueKinds == {"missing", "empty", "str", "zero", "number", "null"}
CallArgs == [object : BOOLEAN, value : ValueKinds]

\* the collaborators: the animation/background callback, a file operation and
\* the MCP subprocess call may fail; backgrounds may be configured; the vector
\* backend may be initialised; the name may be in the manager's tool table
CallEnvs ==
    [callback_fails : BOOLEAN, io_fails : BOOLEAN, mcp_call_fails : BOOLEAN,
     backgrounds : BOOLEAN, vector_ready : BOOLEAN, has_tool : BOOLEAN]

\* bool(x) of an argument value
Falsy(v) == v \in {"missing", "empty", "zero", "null"}
\* x.strip() / x.removesuffix() exist: the value, or the "" default, is a string
IsStr(v) == v \in {"missing", "empty", "str"}

\* MCPManager.call_tool: session.call_tool is awaited with no handler around it
\* (handle_tool_call answers "Unknown tool" itself when has_tool is false)
CallTool(env) ==
    IF ~env.has_tool THEN "string"
    ELSE IF env.mcp_call_fails THEN "raises" ELSE "string"

\* handle_tool_call: "string" when it returns one, "raises" when an exception
\* leaves it
HandleToolCall(name, args, env) ==
    IF name \in {"get_animations", "get_backgrounds"} THEN "string"
    ELSE IF name = "play_animation" \/ (name = "set_background" /\ env.backgrounds) THEN
        IF ~args.object THEN "raises"
        ELSE IF args.value = "str" /\ env.callback_fails THEN "raises" ELSE "string"
    ELSE IF name = "memory_list" THEN IF env.io_fails THEN "raises" ELSE "string"
    ELSE IF name \in MemoryFileTools THEN
        IF ~args.object THEN "raises"
        ELSE IF Falsy(args.value) THEN "string"
        ELSE IF ~IsStr(args.value) THEN "raises"
        ELSE IF env.io_fails THEN "raises" ELSE "string"
    ELSE IF name \in {"state_set", "state_get"} THEN
        IF ~args.object THEN "raises"
        ELSE IF args.value \in {"missing", "empty"} THEN "string"
        ELSE IF name = "state_set" /\ env.io_fails THEN "raises" ELSE "string"
    ELSE IF name = "state_list" THEN "string"
    ELSE IF name \in {"state_check_time", "web_search", "run_command"} THEN
        IF ~args.object \/ ~IsStr(args.value) THEN "raises" ELSE "string"
    ELSE IF name \in VectorTools THEN
        IF ~env.vector_ready \/ name = "vector_list" THEN "string"
        ELSE IF ~args.object \/ ~IsStr(args.value) THEN "raises" ELSE "string"
    ELSE IF name = "mcp_server_list" THEN "string"
    ELSE IF name \in McpServerTools THEN
        IF ~args.object \/ ~IsStr(args.value) THEN "raises" ELSE "string"
    ELSE CallTool(env)

Probe ==
    /\ probe.stage = "none"
    /\ \E name \in DispatchNames, args \in CallArgs, env \in CallEnvs :
          probe' = [stage |-> "called", name |-> name, args |-> args, env |-> env]
    /\ UNCHANGED <<chatVars, mcpVars, memories, pulse, race>>

ProbeEnds ==
    /\ probe.stage = "called"
    /\ probe' = [probe EXCEPT !.stage = HandleToolCall(probe.name, probe.args, probe.env)]
    /\ UNCHANGED <<chatVars, mcpVars, memories, pulse, race>>

InitProbe == probe = [stage |-> "none"]

\* the memories directory before any memory was written
NewMemories ==
    [files |-> EmptyDict,
     last |-> [op |-> "none", filename |-> <<>>, content |-> <<>>,
               result |-> [kind |-> "none", text |-> <<>>]]]

InitMemory == memories = NewMemories

(***************************************************************************)
(* Heartbeat loop (app/heartbeat.py).                                      *)
(***************************************************************************)
\* the module's globals at import, the loop entering its first sleep
InitPulse ==
    pulse = [pc |-> "sleep", now |-> 0, wake |-> HeartbeatInterval,
             last_user_interaction |-> 0, heartbeat_waiting_for_user |-> FALSE,
             spoke |-> FALSE]

\* time.monotonic() advances
Tick ==
    /\ pulse.now < MaxClock
    /\ pulse' = [pulse EXCEPT !.now = @ + 1]

\* record_user_interaction(); spoke: a heartbeat has returned messages and
\* this has not been called since
RecordUserInteraction ==
    pulse' = [pulse EXCEPT !.last_user_interaction = pulse.now,
                           !.heartbeat_waiting_for_user = FALSE,
                           !.spoke = FALSE]

\* back to `await asyncio.sleep(heartbeat_interval)`
Sleeping(p) == [p EXCEPT !.pc = "sleep", !.wake = p.now + HeartbeatInterval]

\* the sleep ends: the two checks, then the coroutine suspends in
\* `await broadcast({"action": "heartbeat", "status": "start"})`
LoopWakes ==
    /\ pulse.pc = "sleep"
    /\ pulse.now >= pulse.wake
    /\ pulse' = IF pulse.heartbeat_waiting_for_user THEN Sleeping(pulse)
                ELSE IF pulse.now - pulse.last_user_interaction < IdleThreshold
                THEN Sleeping(pulse)
                ELSE [pulse EXCEPT !.pc = "announce"]

\* the broadcast returns and chat_handler.heartbeat() is invoked
LoopInvokes ==
    /\ pulse.pc = "announce"
    /\ pulse' = [pulse EXCEPT !.pc = "heartbeat"]

\* heartbeat() returns None or raises (nothing to deliver), or returns
\* texts: the loop suspends in the broadcasts that deliver them
LoopHeartbeatReturns ==
    /\ pulse.pc = "heartbeat"
    /\ \E sent \in BOOLEAN :
          pulse' = IF sent THEN [pulse EXCEPT !.pc = "deliver", !.spoke = TRUE]
                   ELSE Sleeping(pulse)

\* the texts are broadcast: heartbeat_waiting_for_user = True
LoopDelivered ==
    /\ pulse.pc = "deliver"
    /\ pulse' = Sleeping([pulse EXCEPT !.heartbeat_waiting_for_user = TRUE])

NextPulse ==
    \/ Tick /\ UNCHANGED <<chatVars, mcpVars, probe, memories, race>>
    \/ RecordUserInteraction /\ UNCHANGED <<chatVars, mcpVars, probe, memories, race>>
    \/ LoopWakes /\ UNCHANGED <<chatVars, mcpVars, probe, memories, race>>
    \/ LoopInvokes /\ UNCHANGED <<chatVars, mcpVars, probe, memories, race>>
    \/ LoopHeartbeatReturns /\ UNCHANGED <<chatVars, mcpVars, probe, memories, race>>
    \/ LoopDelivered /\ UNCHANGED <<chatVars, mcpVars, probe, memories, race>>

(***************************************************************************)
(* One AI server under two concurrent callers (a user turn and a           *)
(* heartbeat): the suspension points of start_ai_server / stop_ai_server.  *)
(***************************************************************************)
\* pop(name, None) and `name in self._ai_sessions` being false: no subprocess
NoProc == 0

IdleCaller == [pc |-> "idle", op |-> "none", proc |-> NoProc, left |-> MaxRaceOps]

\* _ai_sessions and _ai_exit_stacks hold, for the one server name, the
\* subprocess they refer to; open: the subprocesses spawned and not closed
InitRace ==
    race = [ai_sessions |-> NoProc, ai_exit_stacks |-> NoProc, open |-> {},
            spawned |-> 0, co |-> [c \in Tasks |-> IdleCaller]]

\* start_ai_server up to its first await: the running check, then the
\* subprocess is spawned inside stdio_client
EnterStart(r, c) ==
    IF r.ai_sessions # NoProc
    THEN [r EXCEPT !.co[c].pc = "idle", !.co[c].op = "none"]
    ELSE [r EXCEPT !.spawned = @ + 1, !.open = @ \cup {r.spawned + 1},
                   !.co[c].proc = r.spawned + 1, !.co[c].pc = "connecting"]

\* stop_ai_server up to its await: the tables are popped, then stack.aclose()
EnterStop(r, c) ==
    IF r.ai_sessions = NoProc
    THEN IF r.co[c].op = "restart" THEN EnterStart(r, c)
         ELSE [r EXCEPT !.co[c].pc = "idle", !.co[c].op = "none"]
    ELSE IF r.ai_exit_stacks = NoProc
    THEN LET r1 == [r EXCEPT !.ai_sessions = NoProc] IN
         IF r.co[c].op = "restart" THEN EnterStart(r1, c)
         ELSE [r1 EXCEPT !.co[c].pc = "idle", !.co[c].op = "none"]
    ELSE [r EXCEPT !.ai_sessions = NoProc, !.ai_exit_stacks = NoProc,
                   !.co[c].proc = r.ai_exit_stacks, !.co[c].pc = "closing"]

\* a tool call reaches the manager: mcp_server_start, mcp_server_stop, or the
\* restart of mcp_server_edit
RaceCall(c) ==
    /\ race.co[c].pc = "idle"
    /\ race.co[c].left > 0
    /\ \E op \in {"start", "stop", "restart"} :
          LET r == [race EXCEPT !.co[c].op = op, !.co[c].left = @ - 1] IN
          race' = IF op = "start" THEN EnterStart(r, c) ELSE EnterStop(r, c)

\* stdio_client / ClientSession / initialize return: the stack and the
\* session are stored under the name; or they raise and the stack is closed
RaceConnected(c) ==
    /\ race.co[c].pc = "connecting"
    /\ \E ok \in BOOLEAN :
          race' = IF ok
                  THEN [race EXCEPT !.ai_exit_stacks = race.co[c].proc,
                                    !.ai_sessions = race.co[c].proc,
                                    !.co[c].pc = "listing"]
                  ELSE [race EXCEPT !.open = @ \ {race.co[c].proc},
                                    !.co[c].proc = NoProc,
                                    !.co[c].pc = "idle", !.co[c].op = "none"]

\* session.list_tools() returns or raises: start_ai_server is over
RaceListed(c) ==
    /\ race.co[c].pc = "listing"
    /\ race' = [race EXCEPT !.co[c].proc = NoProc,
                            !.co[c].pc = "idle", !.co[c].op = "none"]

\* stack.aclose() returns: the subprocess is closed; a restart goes on to start
RaceClosed(c) ==
    /\ race.co[c].pc = "closing"
    /\ LET r == [race EXCEPT !.open = @ \ {race.co[c].proc}, !.co[c].proc = NoProc] IN
       race' = IF race.co[c].op = "restart" THEN EnterStart(r, c)
               ELSE [r EXCEPT !.co[c].pc = "idle", !.co[c].op = "none"]

NextRace ==
    \/ \E c \in Tasks : RaceCall(c) /\ UNCHANGED <<chatVars, mcpVars, probe, memories, pulse>>
    \/ \E c \in Tasks : RaceConnected(c) /\ UNCHANGED <<chatVars, mcpVars, probe, memories, pulse>>
    \/ \E c \in Tasks : RaceListed(c) /\ UNCHANGED <<chatVars, mcpVars, probe, memories, pulse>>
    \/ \E c \in Tasks : RaceClosed(c) /\ UNCHANGED <<chatVars, mcpVars, probe, memories, pulse>>

Init ==
    /\ InitEngine
    /\ InitMcp
    /\ InitProbe
    /\ InitMemory
    /\ InitPulse
    /\ InitRace

NextMcp ==
    \/ StartStatic /\ UNCHANGED <<chatVars, probe, memories, pulse, race>>
    \/ ToolCreate /\ UNCHANGED <<chatVars, probe, memories, pulse, race>>
    \/ ToolEdit /\ UNCHANGED <<chatVars, probe, memories, pulse, race>>
    \/ ToolDelete /\ UNCHANGED <<chatVars, probe, memories, pulse, race>>
    \/ ToolStart /\ UNCHANGED <<chatVars, probe, memories, pulse, race>>
    \/ ToolStop /\ UNCHANGED <<chatVars, probe, memories, pulse, race>>
    \/ RemoveServerPy /\ UNCHANGED <<chatVars, probe, memories, pulse, race>>
    \/ CallMcpTool /\ UNCHANGED <<chatVars, probe, memories, pulse, race>>

\* the process with no conversation under way
InitQuiet == Init /\ turns = 0 /\ beats = 0

SpecMcp == InitQuiet /\ [][NextMcp]_vars

SpecPulse == InitQuiet /\ [][NextPulse]_vars

SpecRace == InitQuiet /\ [][NextRace]_vars

(***************************************************************************)
(* start_servers_from_manifest, at the start of a process that finds the   *)
(* servers an earlier process left on disk.                                *)
(***************************************************************************)
\* what an earlier process may have left for one name: nothing, or a
\* directory and a manifest entry, with or without its server.py
LeftOnDisk(d, name, code, auto_start, has_py) ==
    [d EXCEPT !.dirs = @ \cup {name},
              !.server_py = IF has_py THEN Put(@, name, code) ELSE @,
              !.manifest = Put(@, name, Meta("d", FALSE, auto_start, 0, 0))]

DisksWith(ds, name, code) ==
    ds \cup { LeftOnDisk(d, name, code, auto_start, has_py) :
                d \in ds, auto_start \in BOOLEAN, has_py \in BOOLEAN }

BootDisks == DisksWith(DisksWith({NewDisk}, "a", CodeX), "s", CodeXY)

\* a loop that an exception of one start ends
ReviveRestAborts(todo, name, raised) == IF raised THEN {} ELSE todo \ {name}

\* the entries still to visit after this one: the exception of a failed
\* start is caught inside the loop
ReviveRest(todo, name, raised) == todo \ {name}

\* one iteration of `for name, meta in manifest.items()`: the manager
\* afterwards and what was done
ReviveEntry(m, d, name, outcome) ==
    IF ~d.manifest[name].auto_start
    THEN [mcp |-> m, event |-> <<"skip_auto_start", name, FALSE>>]
    ELSE IF name \notin DOMAIN d.server_py
    THEN [mcp |-> m, event |-> <<"skip_missing", name, FALSE>>]
    ELSE LET r == StartAiServer(m, d, name, d.manifest[name].allow_network, outcome) IN
         [mcp |-> r.mcp, event |-> <<"start_ai_server", name, r.raised>>]

Revive ==
    /\ boot = <<>>
    /\ life.phase = "revive"
    /\ \E name \in life.todo :
          \E outcome \in OutcomesIf(/\ disk.manifest[name].auto_start
                                     /\ name \in DOMAIN disk.server_py) :
             LET r == ReviveEntry(mcp, disk, name, outcome) IN
             /\ mcp' = r.mcp
             /\ life' = [life EXCEPT !.todo = ReviveRest(@, name, r.event[3]),
                                     !.log = Append(@, r.event)]
    /\ UNCHANGED <<disk, last, boot, ops>>

\* the loop is over: the process serves requests
ReviveDone ==
    /\ boot = <<>>
    /\ life.phase = "revive"
    /\ life.todo = {}
    /\ life' = [life EXCEPT !.phase = "up"]
    /\ UNCHANGED <<mcp, disk, last, boot, ops>>

InitRevive ==
    /\ InitEngine /\ turns = 0 /\ beats = 0
    /\ InitProbe
    /\ InitMemory
    /\ InitPulse
    /\ InitRace
    /\ mcp = NewManager
    /\ disk \in BootDisks
    /\ last = NoCall
    /\ boot = StaticServers
    /\ ops = 0
    /\ life = [phase |-> "revive", todo |-> DOMAIN disk.manifest,
               snap |-> DOMAIN disk.manifest, log |-> <<>>]

NextRevive ==
    \/ StartStatic /\ UNCHANGED <<chatVars, probe, memories, pulse, race>>
    \/ Revive /\ UNCHANGED <<chatVars, probe, memories, pulse, race>>
    \/ ReviveDone /\ UNCHANGED <<chatVars, probe, memories, pulse, race>>

SpecRevive == InitRevive /\ [][NextRevive]_vars

(***************************************************************************)
(* validate_code on its own: sources of up to MaxNodes nodes.              *)
(***************************************************************************)
\* import json, import socket, import os, from . import os, eval(..),
\* print(..), x.__globals__, x.y
NodeKinds ==
    { <<"Import", "json">>, <<"ImportFrom", "socket">>, <<"Import", "os">>,
      <<"ImportFrom", "">>, <<"Call", "eval">>, <<"Call", "print">>,
      <<"Attribute", "__globals__">>, <<"Attribute", "y">> }

RECURSIVE NodeLists(_)
\* the node sequences of length k, each node on the line of its position
NodeLists(k) ==
    IF k = 0 THEN { <<>> }
    ELSE { Append(ns, Node(nk[1], nk[2], k)) : ns \in NodeLists(k - 1), nk \in NodeKinds }

Sources ==
    { Code("src", FALSE, TRUE, ns, <<>>) : ns \in UNION { NodeLists(k) : k \in 0..MaxNodes } }
    \cup { CodeSyntax }

ValidateProbe ==
    /\ probe.stage = "none"
    /\ \E code \in Sources, allow_network \in BOOLEAN :
          probe' = [stage |-> "called", code |-> code, allow_network |-> allow_network]
    /\ UNCHANGED <<chatVars, mcpVars, memories, pulse, race>>

ValidateEnds ==
    /\ probe.stage = "called"
    /\ probe' = [stage |-> "validated", code |-> probe.code,
                 allow_network |-> probe.allow_network,
                 r |-> ValidateCode(probe.code, probe.allow_network)]
    /\ UNCHANGED <<chatVars, mcpVars, memories, pulse, race>>

NextValidate ==
    \/ ValidateProbe
    \/ ValidateEnds

SpecValidate == InitQuiet /\ [][NextValidate]_vars

(***************************************************************************)
(* The wrapper script that runs an AI server: it installs the import       *)
(* interceptor and then executes the server's code, import by import.      *)
(***************************************************************************)
\* allowed = ALLOWED_MODULES, plus NETWORK_MODULES under allow_network
WrapperAllowed(allow_network) ==
    ALLOWED_MODULES \cup (IF allow_network THEN NETWORK_MODULES ELSE {})

\* the modules the wrapper itself imports before it installs the interceptor
WrapperPreloaded == {"sys", "importlib", "os"}

\* _SandboxImporter.find_module
FindModule(fullname, allowed) == IF fullname \in allowed THEN "None" ELSE "ImportError"

\* An import statement executed under the interceptor. A module already in
\* sys.modules is returned without consulting sys.meta_path; otherwise the
\* interpreter consults the finder, through find_module only where it still
\* falls back to that method for a finder that has no find_spec.
ImportOutcome(fullname, allowed, loaded, calls_find_module) ==
    IF fullname \in loaded THEN "imported"
    ELSE IF calls_find_module /\ FindModule(fullname, allowed) = "ImportError"
    THEN "ImportError"
    ELSE "imported"

ImportNames == {"json", "socket", "os", "subprocess"}

RECURSIVE ImportLists(_)
ImportLists(k) ==
    IF k = 0 THEN { <<>> }
    ELSE { Append(ns, n) : ns \in ImportLists(k - 1), n \in ImportNames }

\* the wrapper starts: the interceptor is installed at sys.meta_path[0]
WrapperStart ==
    /\ probe.stage = "none"
    /\ \E imports \in UNION { ImportLists(k) : k \in 1..MaxNodes },
          allow_network \in BOOLEAN, calls_find_module \in BOOLEAN :
          probe' = [stage |-> "running", imports |-> imports,
                    allow_network |-> allow_network,
                    calls_find_module |-> calls_find_module,
                    loaded |-> WrapperPreloaded, done |-> <<>>]
    /\ UNCHANGED <<chatVars, mcpVars, memories, pulse, race>>

\* exec(compile(_code, ...)): the next import statement of the server's code
WrapperImport ==
    /\ probe.stage = "running"
    /\ LET fullname == Head(probe.imports)
           outcome == ImportOutcome(fullname, WrapperAllowed(probe.allow_network),
                                    probe.loaded, probe.calls_find_module)
       IN probe' = [probe EXCEPT
                      !.stage = IF outcome = "ImportError" THEN "crashed"
                                ELSE IF Tail(probe.imports) = <<>> THEN "served"
                                ELSE "running",
                      !.imports = Tail(probe.imports),
                      !.loaded = IF outcome = "imported" THEN @ \cup {fullname} ELSE @,
                      !.done = Append(@, <<fullname, outcome>>)]
    /\ UNCHANGED <<chatVars, mcpVars, memories, pulse, race>>

NextWrapper ==
    \/ WrapperStart
    \/ WrapperImport

SpecWrapper == InitQuiet /\ [][NextWrapper]_vars

(***************************************************************************)
(* build_sandbox_env: the environment handed to an AI server's process.    *)
(***************************************************************************)
HostKeys == {"PATH", "VIRTUAL_ENV", "LD_LIBRARY_PATH", "HOME", "OPENAI_API_KEY"}
HostValues == {"u", "v"}

\* os.environ of the host: any of the keys, each with any value
HostEnvs == UNION { [K -> HostValues] : K \in SUBSET HostKeys }

ServerDirs == {"a", "s"}

\* str(server_dir / "sandbox")
SandboxDir(server_dir) == IF server_dir = "a" THEN "a/sandbox" ELSE "s/sandbox"

\* if key in os.environ: env[key] = os.environ[key]
CopyIfPresent(env, environ, key) ==
    IF key \in DOMAIN environ THEN Put(env, key, environ[key]) ELSE env

FixedEnv(server_dir) ==
    Put(Put(Put(EmptyDict, "PYTHONDONTWRITEBYTECODE", "1"), "PYTHONUNBUFFERED", "1"),
        "MCP_SANDBOX_DIR", SandboxDir(server_dir))

RECURSIVE Overlay(_, _, _)
\* {**environ, **env} over the given keys of environ
Overlay(env, environ, keys) ==
    IF keys = {} THEN env
    ELSE LET k == CHOOSE x \in keys : TRUE
         IN Overlay(IF k \in DOMAIN env THEN env ELSE Put(env, k, environ[k]),
                    environ, keys \ {k})

\* an environment that starts from the whole host environment
BuildSandboxEnvInherits(environ, server_dir, allow_network) ==
    Overlay(FixedEnv(server_dir), environ, DOMAIN environ)

BuildSandboxEnv(environ, server_dir, allow_network) ==
    CopyIfPresent(
        CopyIfPresent(
            CopyIfPresent(
                CopyIfPresent(FixedEnv(server_dir), environ, "PATH"),
                environ, "VIRTUAL_ENV"),
            environ, "LD_LIBRARY_PATH"),
        environ, "HOME")

EnvProbe ==
    /\ probe.stage = "none"
    /\ \E environ \in HostEnvs, server_dir \in ServerDirs, allow_network \in BOOLEAN :
          probe' = [stage |-> "called", environ |-> environ, server_dir |-> server_dir,
                    allow_network |-> allow_network]
    /\ UNCHANGED <<chatVars, mcpVars, memories, pulse, race>>

EnvEnds ==
    /\ probe.stage = "called"
    /\ probe' = [stage |-> "built", environ |-> probe.environ,
                 server_dir |-> probe.server_dir, allow_network |-> probe.allow_network,
                 env |-> BuildSandboxEnv(probe.environ, probe.server_dir,
                                         probe.allow_network)]
    /\ UNCHANGED <<chatVars, mcpVars, memories, pulse, race>>

NextEnv ==
    \/ EnvProbe
    \/ EnvEnds

SpecEnv == InitQuiet /\ [][NextEnv]_vars

(***************************************************************************)
(* Memory files. A filename is a sequence of path tokens, a content a      *)
(* sequence of characters; "LF" and "CR" are the two newline characters.   *)
(***************************************************************************)
Filenames ==
    { <<>>, <<"x">>, <<"x", ".md">>, <<"y", "/", "x">>, <<"y">> }

RECURSIVE Texts(_)
Texts(k) ==
    IF k = 0 THEN { <<>> }
    ELSE { Append(t, c) : t \in Texts(k - 1), c \in {"a", "LF", "CR"} }

Contents == UNION { Texts(k) : k \in 0..MaxLen }

\* filename.removesuffix(".md")
RemoveSuffixMd(filename) ==
    IF filename # <<>> /\ filename[Len(filename)] = ".md"
    THEN SubSeq(filename, 1, Len(filename) - 1)
    ELSE filename

RECURSIVE PathName(_)
\* Path(name).name: the last component
PathName(name) ==
    IF name = <<>> THEN <<>>
    ELSE IF name[Len(name)] = "/" THEN PathName(SubSeq(name, 1, Len(name) - 1))
    ELSE IF \E i \in 1..Len(name) : name[i] = "/"
    THEN LET i == CHOOSE k \in 1..Len(name) :
                     name[k] = "/" /\ \A l \in (k + 1)..Len(name) : name[l] # "/"
         IN SubSeq(name, i + 1, Len(name))
    ELSE name

\* a path formed without dropping the directory components
SafeFilenameKeepsDirs(filename) == Append(RemoveSuffixMd(filename), ".md")

\* safe_filename: the file in the memories directory
SafeFilename(filename) == Append(PathName(RemoveSuffixMd(filename)), ".md")

\* os.linesep of the host the program runs on
LineSep == <<"LF">>

RECURSIVE WriteText(_)
\* Path.write_text(content, encoding="utf-8"): text mode with newline=None
\* writes every "\n" as os.linesep
WriteText(content) ==
    IF content = <<>> THEN <<>>
    ELSE (IF Head(content) = "LF" THEN LineSep ELSE <<Head(content)>>)
             \o WriteText(Tail(content))

RECURSIVE ReadText(_)
\* Path.read_text(encoding="utf-8"): text mode with newline=None returns
\* "\r\n" and "\r" as "\n"
ReadText(stored) ==
    IF stored = <<>> THEN <<>>
    ELSE IF Head(stored) = "CR"
    THEN <<"LF">> \o ReadText(IF Len(stored) > 1 /\ stored[2] = "LF"
                              THEN Tail(Tail(stored)) ELSE Tail(stored))
    ELSE <<Head(stored)>> \o ReadText(Tail(stored))

MemResult(kind, text) == [kind |-> kind, text |-> text]

\* handle_memory_create: the files afterwards and the returned string
HandleMemoryCreate(files, filename, content) ==
    IF filename = <<>>
    THEN [files |-> files, result |-> MemResult("Error: filename is required.", <<>>)]
    ELSE LET path == SafeFilename(filename) IN
         IF path \in DOMAIN files
         THEN [files |-> files, result |-> MemResult("already exists", filename)]
         ELSE [files |-> Put(files, path, WriteText(content)),
               result |-> MemResult("created", filename)]

\* handle_memory_read
HandleMemoryRead(files, filename) ==
    IF filename = <<>>
    THEN [files |-> files, result |-> MemResult("Error: filename is required.", <<>>)]
    ELSE LET path == SafeFilename(filename) IN
         IF path \notin DOMAIN files
         THEN [files |-> files, result |-> MemResult("not found", filename)]
         ELSE [files |-> files, result |-> MemResult("text", ReadText(files[path]))]

MemoryCreate ==
    /\ \E filename \in Filenames, content \in Contents :
          LET r == HandleMemoryCreate(memories.files, filename, content) IN
          memories' = [files |-> r.files,
                       last |-> [op |-> "create", filename |-> filename,
                                 content |-> content, result |-> r.result]]
    /\ UNCHANGED <<chatVars, mcpVars, probe, pulse, race>>

MemoryRead ==
    /\ \E filename \in Filenames :
          LET r == HandleMemoryRead(memories.files, filename) IN
          memories' = [files |-> r.files,
                       last |-> [op |-> "read", filename |-> filename,
                                 content |-> <<>>, result |-> r.result]]
    /\ UNCHANGED <<chatVars, mcpVars, probe, pulse, race>>

NextMemory ==
    \/ MemoryCreate
    \/ MemoryRead

SpecMemory == InitQuiet /\ [][NextMemory]_vars

(***************************************************************************)
(* memory_patch, on one memory file.                                       *)
(***************************************************************************)
RECURSIVE TextsOver(_, _)
\* the texts of length k over the alphabet
TextsOver(alphabet, k) ==
    IF k = 0 THEN { <<>> }
    ELSE { Append(t, c) : t \in TextsOver(alphabet, k - 1), c \in alphabet }

PatchTexts == UNION { TextsOver({"a", "CR"}, k) : k \in 0..MaxPatchLen }
PatchStrings == UNION { TextsOver({"a", "CR"}, k) : k \in 0..MaxOld }
PatchNames == { <<"x">>, <<"x", ".md">> }

StartsWith(text, sub) == Len(sub) <= Len(text) /\ SubSeq(text, 1, Len(sub)) = sub

RECURSIVE Count(_, _)
\* str.count: the non-overlapping matches, scanning from the left
Count(text, sub) ==
    IF Len(text) < Len(sub) THEN 0
    ELSE IF StartsWith(text, sub)
    THEN 1 + Count(SubSeq(text, Len(sub) + 1, Len(text)), sub)
    ELSE Count(Tail(text), sub)

RECURSIVE ReplaceFirst(_, _, _)
\* str.replace(old, new, 1)
ReplaceFirst(text, old, new) ==
    IF Len(text) < Len(old) THEN text
    ELSE IF StartsWith(text, old)
    THEN new \o SubSeq(text, Len(old) + 1, Len(text))
    ELSE <<Head(text)>> \o ReplaceFirst(Tail(text), old, new)

\* a patch that reports success when old_string is not in the file
HandleMemoryPatchSilent(files, filename, old_string, new_string) ==
    IF filename = <<>>
    THEN [files |-> files, read |-> <<>>,
          result |-> MemResult("Error: filename is required.", <<>>)]
    ELSE IF old_string = <<>>
    THEN [files |-> files, read |-> <<>>,
          result |-> MemResult("Error: old_string is required.", <<>>)]
    ELSE LET path == SafeFilename(filename) IN
         IF path \notin DOMAIN files
         THEN [files |-> files, read |-> <<>>, result |-> MemResult("not found", filename)]
         ELSE LET content == ReadText(files[path])
                  count == Count(content, old_string)
              IN IF count > 1
                 THEN [files |-> files, read |-> content,
                       result |-> MemResult("Error: old_string matches several times",
                                            filename)]
                 ELSE [files |-> Put(files, path,
                                     WriteText(ReplaceFirst(content, old_string,
                                                            new_string))),
                       read |-> content, result |-> MemResult("patched", filename)]

\* handle_memory_patch: the files afterwards, the content it read and the
\* returned string
HandleMemoryPatch(files, filename, old_string, new_string) ==
    IF filename = <<>>
    THEN [files |-> files, read |-> <<>>,
          result |-> MemResult("Error: filename is required.", <<>>)]
    ELSE IF old_string = <<>>
    THEN [files |-> files, read |-> <<>>,
          result |-> MemResult("Error: old_string is required.", <<>>)]
    ELSE LET path == SafeFilename(filename) IN
         IF path \notin DOMAIN files
         THEN [files |-> files, read |-> <<>>, result |-> MemResult("not found", filename)]
         ELSE LET content == ReadText(files[path])
                  count == Count(content, old_string)
              IN IF count = 0
                 THEN [files |-> files, read |-> content,
                       result |-> MemResult("Error: old_string not found", filename)]
                 ELSE IF count > 1
                 THEN [files |-> files, read |-> content,
                       result |-> MemResult("Error: old_string matches several times",
                                            filename)]
                 ELSE [files |-> Put(files, path,
                                     WriteText(ReplaceFirst(content, old_string,
                                                            new_string))),
                       read |-> content, result |-> MemResult("patched", filename)]

\* the record of a memory_patch call; content is the text the handler read
PatchCall(filename, old_string, new_string, r) ==
    [op |-> "patch", filename |-> filename, content |-> r.read, old |-> old_string,
     new |-> new_string, result |-> r.result]

\* memory_create of the memory that is patched afterwards
PatchSeed ==
    /\ \E filename \in PatchNames, content \in PatchTexts :
          LET r == HandleMemoryCreate(memories.files, filename, content) IN
          memories' = [files |-> r.files,
                       last |-> [op |-> "create", filename |-> filename,
                                 content |-> content, old |-> <<>>, new |-> <<>>,
                                 result |-> r.result]]
    /\ UNCHANGED <<chatVars, mcpVars, probe, pulse, race>>

\* the dispatcher's memory_patch branch; the memory stays within MaxPatchLen
MemoryPatch ==
    /\ \E filename \in PatchNames \cup {<<>>}, old_string \in PatchStrings,
          new_string \in PatchStrings :
          LET r == HandleMemoryPatch(memories.files, filename, old_string, new_string) IN
          /\ \A path \in DOMAIN r.files : Len(r.files[path]) <= MaxPatchLen
          /\ memories' = [files |-> r.files,
                          last |-> PatchCall(filename, old_string, new_string, r)]
    /\ UNCHANGED <<chatVars, mcpVars, probe, pulse, race>>

NextPatch ==
    \/ PatchSeed
    \/ MemoryPatch

SpecPatch == InitQuiet /\ [][NextPatch]_vars

(***************************************************************************)
(* The five memory tools on filenames with directory components. A path is *)
(* relative to the memories directory; OutsideFiles are files of the host  *)
(* that are not in it.                                                     *)
(***************************************************************************)
HandleMemoryEdit(files, filename, content) ==
    IF filename = <<>>
    THEN [files |-> files, result |-> MemResult("Error: filename is required.", <<>>)]
    ELSE LET path == SafeFilename(filename) IN
         IF path \notin DOMAIN files
         THEN [files |-> files, result |-> MemResult("not found", filename)]
         ELSE [files |-> Put(files, path, WriteText(content)),
               result |-> MemResult("updated", filename)]

HandleMemoryDelete(files, filename) ==
    IF filename = <<>>
    THEN [files |-> files, result |-> MemResult("Error: filename is required.", <<>>)]
    ELSE LET path == SafeFilename(filename) IN
         IF path \notin DOMAIN files
         THEN [files |-> files, result |-> MemResult("not found", filename)]
         ELSE [files |-> Pop(files, path), result |-> MemResult("deleted", filename)]

PathArgs ==
    { <<>>, <<"x">>, <<"x", ".md">>, <<"y", "/", "x">>, <<"..", "/", "x">>,
      <<"/", "x">>, <<"..">>, <<"x", "/">>, <<"/">> }

PathTexts == { <<"a">>, <<"b">> }

\* ../x.md and /x.md, each holding a text no memory call writes
OutsideFiles ==
    Put(Put(EmptyDict, <<"..", "/", "x", ".md">>, <<"s">>), <<"/", "x", ".md">>, <<"s">>)

MemoryCalled(op, filename, content, r) ==
    memories' = [files |-> r.files,
                 last |-> [op |-> op, filename |-> filename, content |-> content,
                           result |-> r.result]]

PathCreate ==
    /\ \E filename \in PathArgs, content \in PathTexts :
          MemoryCalled("create", filename, content,
                       HandleMemoryCreate(memories.files, filename, content))
    /\ UNCHANGED <<chatVars, mcpVars, probe, pulse, race>>

PathRead ==
    /\ \E filename \in PathArgs :
          MemoryCalled("read", filename, <<>>, HandleMemoryRead(memories.files, filename))
    /\ UNCHANGED <<chatVars, mcpVars, probe, pulse, race>>

PathEdit ==
    /\ \E filename \in PathArgs, content \in PathTexts :
          MemoryCalled("edit", filename, content,
                       HandleMemoryEdit(memories.files, filename, content))
    /\ UNCHANGED <<chatVars, mcpVars, probe, pulse, race>>

PathDelete ==
    /\ \E filename \in PathArgs :
          MemoryCalled("delete", filename, <<>>,
                       HandleMemoryDelete(memories.files, filename))
    /\ UNCHANGED <<chatVars, mcpVars, probe, pulse, race>>

PathPatch ==
    /\ \E filename \in PathArgs, old_string \in PathTexts, new_string \in PathTexts :
          MemoryCalled("patch", filename, new_string,
                       HandleMemoryPatch(memories.files, filename, old_string,
                                         new_string))
    /\ UNCHANGED <<chatVars, mcpVars, probe, pulse, race>>

InitPaths ==
    /\ InitEngine /\ turns = 0 /\ beats = 0
    /\ InitMcp
    /\ InitProbe
    /\ memories = [NewMemories EXCEPT !.files = OutsideFiles]
    /\ InitPulse
    /\ InitRace

NextPaths ==
    \/ PathCreate
    \/ PathRead
    \/ PathEdit
    \/ PathDelete
    \/ PathPatch

SpecPaths == InitPaths /\ [][NextPaths]_vars

(***************************************************************************)
(* handle_run_command. Time advances in steps of ten seconds; shell is the *)
(* process create_subprocess_shell starts, children the processes that     *)
(* shell starts to run the command.                                        *)
(***************************************************************************)
RunCommands ==
    [blank : {FALSE}, secs : { 10 * k : k \in 0..(MaxRunSecs \div 10) },
     children : 0..MaxChildren, output : {"", "out"}, spawn_raises : BOOLEAN]
    \cup { [blank |-> TRUE, secs |-> 0, children |-> 0, output |-> "",
            spawn_raises |-> FALSE] }

RunReturned(command, elapsed, shell, children, result) ==
    [stage |-> "returned", command |-> command, elapsed |-> elapsed, shell |-> shell,
     children |-> children, result |-> result]

\* the call up to `await asyncio.wait_for(proc.communicate(), timeout=30)`
RunStart ==
    /\ probe.stage = "none"
    /\ \E command \in RunCommands :
          probe' =
              IF command.blank
              THEN RunReturned(command, 0, "none", 0, "Error: command is required.")
              ELSE IF command.spawn_raises
              THEN RunReturned(command, 0, "none", 0, "Error running command")
              ELSE [stage |-> "waiting", command |-> command, elapsed |-> 0,
                    shell |-> "running", children |-> command.children, result |-> ""]
    /\ UNCHANGED <<chatVars, mcpVars, memories, pulse, race>>

\* ten more seconds pass while the command runs and the timeout is not due
RunTick ==
    /\ probe.stage = "waiting"
    /\ probe.elapsed < probe.command.secs
    /\ probe.elapsed < RUN_TIMEOUT
    /\ probe' = [probe EXCEPT !.elapsed = @ + 10]
    /\ UNCHANGED <<chatVars, mcpVars, memories, pulse, race>>

\* the command ends: communicate() has read the output and waited for the shell
RunExits ==
    /\ probe.stage = "waiting"
    /\ probe.elapsed = probe.command.secs
    /\ probe' = RunReturned(probe.command, probe.elapsed, "reaped", 0,
                            IF probe.command.output = ""
                            THEN "Command exited with code (no output)."
                            ELSE probe.command.output)
    /\ UNCHANGED <<chatVars, mcpVars, memories, pulse, race>>

\* except asyncio.TimeoutError: proc.kill() signals the shell, and the call
\* returns without waiting for it
RunTimeout ==
    /\ probe.stage = "waiting"
    /\ probe.elapsed = RUN_TIMEOUT
    /\ probe' = RunReturned(probe.command, probe.elapsed, "killed", probe.children,
                            "Error: command timed out after 30 seconds.")
    /\ UNCHANGED <<chatVars, mcpVars, memories, pulse, race>>

\* after the return: the event loop's child watcher reaps the killed shell,
\* and the processes it had started run to their end
RunReaped ==
    /\ probe.stage \in {"returned", "later"}
    /\ probe.shell = "killed" \/ probe.children > 0
    /\ \/ /\ probe.shell = "killed"
          /\ probe' = [probe EXCEPT !.stage = "later", !.shell = "reaped"]
       \/ /\ probe.children > 0
          /\ probe' = [probe EXCEPT !.stage = "later", !.children = @ - 1]
    /\ UNCHANGED <<chatVars, mcpVars, memories, pulse, race>>

NextRun ==
    \/ RunStart
    \/ RunTick
    \/ RunExits
    \/ RunTimeout
    \/ RunReaped

SpecRun == InitQuiet /\ [][NextRun]_vars

(***************************************************************************)
(* mcp_server_logs. The lines of a log are numbered from the oldest.       *)
(***************************************************************************)
LogLengths == {0, 1, 2, LOG_DEFAULT, LOG_CAP - 1, LOG_CAP, LOG_CAP + 1, MaxLog}

\* the "lines" argument, when the call gives one
LineArgs ==
    { [given |-> FALSE, value |-> 0] }
    \cup { [given |-> TRUE, value |-> v] :
               v \in {-LOG_CAP - 1, -1, 0, 1, 2, LOG_DEFAULT, LOG_CAP, LOG_CAP + 1} }

LogOf(n) == [i \in 1..n |-> i]

Min(a, b) == IF a <= b THEN a ELSE b
Max(a, b) == IF a >= b THEN a ELSE b

\* all_lines[-lines:]: a negative start counts from the end, and -0 is 0
LastLines(all_lines, lines) ==
    LET n == Len(all_lines)
        start == IF -lines < 0 THEN Max(n - lines, 0) ELSE Min(-lines, n)
    IN SubSeq(all_lines, start + 1, n)

\* MCPManager.get_ai_server_logs
GetAiServerLogs(has_file, all_lines, lines) ==
    IF ~has_file THEN <<>> ELSE LastLines(all_lines, lines)

\* handle_mcp_server_logs, for a valid server name
HandleLogs(has_file, all_lines, lines_arg) ==
    LET lines_count == Min(IF lines_arg.given THEN lines_arg.value ELSE LOG_DEFAULT, LOG_CAP)
        lines == GetAiServerLogs(has_file, all_lines, lines_count)
    IN IF lines = <<>> THEN [kind |-> "No logs for server", lines |-> <<>>]
       ELSE [kind |-> "lines", lines |-> lines]

LogsProbe ==
    /\ probe.stage = "none"
    /\ \E n \in LogLengths, lines_arg \in LineArgs, has_file \in BOOLEAN :
          probe' = [stage |-> "called", has_file |-> has_file, log |-> LogOf(n),
                    lines |-> lines_arg]
    /\ UNCHANGED <<chatVars, mcpVars, memories, pulse, race>>

LogsEnds ==
    /\ probe.stage = "called"
    /\ probe' = [stage |-> "logs", has_file |-> probe.has_file, log |-> probe.log,
                 lines |-> probe.lines,
                 r |-> HandleLogs(probe.has_file, probe.log, probe.lines)]
    /\ UNCHANGED <<chatVars, mcpVars, memories, pulse, race>>

NextLogs ==
    \/ LogsProbe
    \/ LogsEnds

SpecLogs == InitQuiet /\ [][NextLogs]_vars

(***************************************************************************)
(* get_builtin_tools: the tool list built from a configuration snapshot.   *)
(***************************************************************************)
Tool(name, properties) == [name |-> name, properties |-> properties]

\* brave.get("api_key"): no key, an empty string, a key
ApiKeys == {"absent", "empty", "key"}
WebSearchConfigs == [enabled : BOOLEAN, brave_enabled : BOOLEAN, api_key : ApiKeys]

\* WebSearchConfig.brave_api_key
BraveApiKey(ws) ==
    IF ~ws.enabled THEN "absent"
    ELSE IF ~ws.brave_enabled THEN "absent"
    ELSE ws.api_key

BuiltinToolsConfigs ==
    [animation : BOOLEAN, memory : BOOLEAN, memory_readonly : BOOLEAN, state : BOOLEAN,
     web_search : WebSearchConfigs, vector_search_enabled : BOOLEAN, bash : BOOLEAN,
     mcp_servers : BOOLEAN, mcp_servers_allow_network : BOOLEAN]

\* BuiltinToolsConfig()
DefaultToolsConfig ==
    [animation |-> TRUE, memory |-> TRUE, memory_readonly |-> FALSE, state |-> TRUE,
     web_search |-> [enabled |-> FALSE, brave_enabled |-> FALSE, api_key |-> "absent"],
     vector_search_enabled |-> FALSE, bash |-> TRUE,
     mcp_servers |-> FALSE, mcp_servers_allow_network |-> FALSE]

\* background_names: None, an empty list, a list of names
BackgroundNames == {"none", "empty", "some"}

\* the arguments of one call, and whether init_vector_search has set the
\* collection that get_collection() returns
ToolSnapshots ==
    [given : BOOLEAN, tc : BuiltinToolsConfigs, bash_enabled : BOOLEAN,
     background_names : BackgroundNames, collection : BOOLEAN]

AnimationGroup(tc, background_names) ==
    IF tc.animation THEN
        <<Tool("get_animations", {}), Tool("play_animation", {"name"})>>
        \o (IF background_names = "some"
            THEN <<Tool("get_backgrounds", {}), Tool("set_background", {"name"})>>
            ELSE <<>>)
    ELSE <<>>

\* a memory group that offers the write tools whatever memory_readonly says
MemoryGroupWritable(tc) ==
    IF tc.memory THEN
        <<Tool("memory_read", {"filename"}), Tool("memory_list", {}),
          Tool("memory_create", {"filename", "content"}),
          Tool("memory_edit", {"filename", "content"}),
          Tool("memory_delete", {"filename"}),
          Tool("memory_patch", {"filename", "old_string", "new_string"})>>
    ELSE <<>>

MemoryGroup(tc) ==
    IF tc.memory THEN
        <<Tool("memory_read", {"filename"}), Tool("memory_list", {})>>
        \o (IF ~tc.memory_readonly
            THEN <<Tool("memory_create", {"filename", "content"}),
                   Tool("memory_edit", {"filename", "content"}),
                   Tool("memory_delete", {"filename"}),
                   Tool("memory_patch", {"filename", "old_string", "new_string"})>>
            ELSE <<>>)
    ELSE <<>>

StateGroup(tc) ==
    IF tc.state THEN
        <<Tool("state_set", {"key", "value"}), Tool("state_get", {"key"}),
          Tool("state_list", {}), Tool("state_check_time", {"key"})>>
    ELSE <<>>

WebSearchGroup(tc) ==
    IF BraveApiKey(tc.web_search) = "key"
    THEN <<Tool("web_search", {"query", "count"})>>
    ELSE <<>>

BashGroup(tc, bash_enabled) ==
    IF tc.bash /\ bash_enabled THEN <<Tool("run_command", {"command"})>> ELSE <<>>

VectorGroup(tc, collection) ==
    IF tc.vector_search_enabled /\ collection THEN
        <<Tool("vector_save", {"id", "content", "metadata"}),
          Tool("vector_search", {"query", "n"}),
          Tool("vector_delete", {"id"}), Tool("vector_list", {})>>
    ELSE <<>>

McpServersGroup(tc) ==
    IF tc.mcp_servers THEN
        LET create_props ==
                {"name", "code", "description", "auto_start"}
                \cup (IF tc.mcp_servers_allow_network THEN {"allow_network"} ELSE {})
        IN <<Tool("mcp_server_create", create_props),
             Tool("mcp_server_edit", {"name", "code"}),
             Tool("mcp_server_delete", {"name"}), Tool("mcp_server_list", {}),
             Tool("mcp_server_start", {"name"}), Tool("mcp_server_stop", {"name"}),
             Tool("mcp_server_logs", {"name", "lines"})>>
    ELSE <<>>

\* tc = builtin_tools_config or BuiltinToolsConfig()
EffectiveConfig(snap) == IF snap.given THEN snap.tc ELSE DefaultToolsConfig

GetBuiltinTools(snap) ==
    LET tc == EffectiveConfig(snap) IN
    AnimationGroup(tc, snap.background_names) \o MemoryGroup(tc) \o StateGroup(tc)
    \o WebSearchGroup(tc) \o BashGroup(tc, snap.bash_enabled)
    \o VectorGroup(tc, snap.collection) \o McpServersGroup(tc)

ToolsProbe ==
    /\ probe.stage = "none"
    /\ \E snap \in ToolSnapshots :
          /\ ~snap.given => snap.tc = DefaultToolsConfig
          /\ probe' = [stage |-> "called", snap |-> snap]
    /\ UNCHANGED <<chatVars, mcpVars, memories, pulse, race>>

ToolsEnds ==
    /\ probe.stage = "called"
    /\ probe' = [stage |-> "tools", snap |-> probe.snap,
                 tools |-> GetBuiltinTools(probe.snap)]
    /\ UNCHANGED <<chatVars, mcpVars, memories, pulse, race>>

NextTools ==
    \/ ToolsProbe
    \/ ToolsEnds

SpecTools == InitQuiet /\ [][NextTools]_vars

\* the process from start to shutdown
NextShutdown ==
    \/ NextMcp
    \/ Shutdown /\ UNCHANGED <<chatVars, probe, memories, pulse, race>>
    \/ ShutdownStop /\ UNCHANGED <<chatVars, probe, memories, pulse, race>>
    \/ ShutdownClose /\ UNCHANGED <<chatVars, probe, memories, pulse, race>>

SpecShutdown == InitQuiet /\ [][NextShutdown]_vars

\* the dispatcher's mcp_server_logs branch: the log the manager remembers for
\* the name, whose file is gone with the server's directory
ToolLogs ==
    /\ Serving
    /\ \E args \in NameOnly, n \in {0, 2} :
          LET sn == SafeName(args.name) IN
          Completed("logs", args.name, "",
                    Outcome(mcp, disk,
                            IF ~sn.ok THEN sn.error
                            ELSE HandleLogs(sn.name \in mcp.ai_stderr_files
                                              /\ sn.name \in disk.dirs,
                                            LogOf(n),
                                            [given |-> FALSE, value |-> 0]).kind,
                            <<>>))

\* every server tool of the dispatcher, logs included
NextManifest ==
    \/ NextMcp
    \/ ToolLogs /\ UNCHANGED <<chatVars, probe, memories, pulse, race>>

SpecManifest == InitQuiet /\ [][NextManifest]_vars

\* call_tool on its own: the tables it may find, a tool name, and whether the
\* forwarded call fails
ToolTables ==
    UNION { [names -> {"a", "s"}] : names \in SUBSET {"x", "y"} }
ManagerTables ==
    { [NewManager EXCEPT !.sessions = ss, !.ai_sessions = as, !.ai_exit_stacks = as,
                         !.tools = tt] :
        ss \in SUBSET {"s"}, as \in SUBSET {"a", "s"}, tt \in ToolTables }

CallToolProbe ==
    /\ probe.stage = "none"
    /\ \E m \in ManagerTables, name \in ToolNames, call_fails \in BOOLEAN :
          probe' = [stage |-> "called", mcp |-> m, name |-> name,
                    call_fails |-> call_fails]
    /\ UNCHANGED <<chatVars, mcpVars, memories, pulse, race>>

CallToolEnds ==
    /\ probe.stage = "called"
    /\ probe' = [stage |-> "returned", mcp |-> probe.mcp, name |-> probe.name,
                 r |-> McpCallTool(probe.mcp, probe.name, probe.call_fails)]
    /\ UNCHANGED <<chatVars, mcpVars, memories, pulse, race>>

NextCallTool ==
    \/ CallToolProbe
    \/ CallToolEnds

SpecCallTool == InitQuiet /\ [][NextCallTool]_vars

(***************************************************************************)
(* Routing of one call after servers have registered their tools.          *)
(***************************************************************************)
\* the names handle_tool_call answers itself, before it asks the manager
BuiltinBranches == DispatchNames \ {"mcp_tool", "no_such_tool"}

\* where handle_tool_call sends a call: a built-in branch, or the connection
\* call_tool forwards to (<<>> when it forwards to none)
RoutedTo(m, name, backgrounds) ==
    IF name \in BuiltinBranches /\ (name = "set_background" => backgrounds)
    THEN <<"builtin", name>>
    ELSE McpCallTool(m, name, FALSE).via

\* the servers of a configuration and of the manifest, and what they expose
RouteStatic == {"r", "s"}
RouteAi == {"a", "s"}
RouteTools == {<<"t">>, <<"memory_list">>, <<"set_background">>}

\* the process starts: the built-in branches exist before any server connects
RouteBegin ==
    /\ probe.stage = "none"
    /\ \E backgrounds \in BOOLEAN :
          probe' = [stage |-> "static", mcp |-> NewManager, backgrounds |-> backgrounds,
                    regs |-> <<>>]
    /\ UNCHANGED <<chatVars, mcpVars, memories, pulse, race>>

\* MCPManager.start connects one more configured server
RouteConnect ==
    /\ probe.stage = "static"
    /\ Len(probe.regs) < MaxRegs
    /\ \E name \in RouteStatic \ probe.mcp.sessions, names \in RouteTools :
          probe' = [probe EXCEPT
                      !.mcp = [@ EXCEPT !.sessions = @ \cup {name},
                                        !.tools = RegisterTools(@, name, names)],
                      !.regs = Append(@, [kind |-> "static", server |-> name,
                                          names |-> names])]
    /\ UNCHANGED <<chatVars, mcpVars, memories, pulse, race>>

\* start_ai_server succeeds for one more AI-created server
RouteStartAi ==
    /\ probe.stage \in {"static", "ai"}
    /\ Len(probe.regs) < MaxRegs
    /\ \E name \in RouteAi \ probe.mcp.ai_sessions, names \in RouteTools :
          probe' = [probe EXCEPT
                      !.stage = "ai",
                      !.mcp = [@ EXCEPT !.ai_sessions = @ \cup {name},
                                        !.ai_exit_stacks = @ \cup {name},
                                        !.ai_stderr_files = @ \cup {name},
                                        !.tools = RegisterTools(@, name, names),
                                        !.ai_tools = Put(@, name, names)],
                      !.regs = Append(@, [kind |-> "ai", server |-> name,
                                          names |-> names])]
    /\ UNCHANGED <<chatVars, mcpVars, memories, pulse, race>>

\* the model calls a name
RouteCall ==
    /\ probe.stage \in {"static", "ai"}
    /\ \E name \in {"t", "memory_list", "set_background"} :
          probe' = [stage |-> "routed", mcp |-> probe.mcp,
                    backgrounds |-> probe.backgrounds, regs |-> probe.regs,
                    name |-> name,
                    via |-> RoutedTo(probe.mcp, name, probe.backgrounds)]
    /\ UNCHANGED <<chatVars, mcpVars, memories, pulse, race>>

NextRoute ==
    \/ RouteBegin
    \/ RouteConnect
    \/ RouteStartAi
    \/ RouteCall

SpecRoute == InitQuiet /\ [][NextRoute]_vars

(***************************************************************************)
(* The tool set a turn offers to the model, round by round.                *)
(***************************************************************************)
\* MCPManager.get_openai_tools: a fresh list of the tool table's names
GetOpenaiTools(m) == DOMAIN m.tools

\* ChatHandler._get_all_tools: the built-in list and the manager's tools
GetAllTools(m) == {"memory_list", "play_animation"} \cup GetOpenaiTools(m)

\* a turn that enumerates the tools again for every request
OfferedToolsFresh(tools, m) == GetAllTools(m)

\* kwargs["tools"] = tools: the list enumerated before the loop
OfferedTools(tools, m) == tools

\* send_message begins: the tools are enumerated under the lock
OfferBegin ==
    /\ probe.stage = "none"
    /\ \E running \in SUBSET {"a"} :
          LET m == [NewManager EXCEPT
                       !.ai_sessions = running,
                       !.tools = RegisterTools(@, "a", IF running = {} THEN <<>> ELSE <<"x">>),
                       !.ai_tools = IF running = {} THEN EmptyDict ELSE Put(@, "a", <<"x">>)]
          IN probe' = [stage |-> "turn", mcp |-> m, tools |-> GetAllTools(m),
                       first |-> GetAllTools(m), offered |-> <<>>, awaiting |-> "model"]
    /\ UNCHANGED <<chatVars, mcpVars, memories, pulse, race>>

\* one request to the model
OfferRound ==
    /\ probe.stage = "turn"
    /\ probe.awaiting = "model"
    /\ Len(probe.offered) < MaxOfferRounds
    /\ probe' = [probe EXCEPT !.offered = Append(@, OfferedTools(probe.tools, probe.mcp)),
                              !.awaiting = "tool"]
    /\ UNCHANGED <<chatVars, mcpVars, memories, pulse, race>>

\* the round's tool call starts a server (mcp_server_create, start, edit)
OfferStarts ==
    /\ probe.stage = "turn"
    /\ probe.awaiting = "tool"
    /\ \E name \in {"a", "b"} \ probe.mcp.ai_sessions,
          names \in {<<>>, <<"x">>, <<"y">>, <<"y", "z">>} :
          probe' = [probe EXCEPT
                      !.mcp = [@ EXCEPT !.ai_sessions = @ \cup {name},
                                        !.tools = RegisterTools(@, name, names),
                                        !.ai_tools = Put(@, name, names)],
                      !.awaiting = "model"]
    /\ UNCHANGED <<chatVars, mcpVars, memories, pulse, race>>

\* the round's tool call stops a server (mcp_server_stop, delete, edit)
OfferStops ==
    /\ probe.stage = "turn"
    /\ probe.awaiting = "tool"
    /\ \E name \in probe.mcp.ai_sessions :
          probe' = [probe EXCEPT !.mcp = StopAiServer(probe.mcp, name).mcp,
                                !.awaiting = "model"]
    /\ UNCHANGED <<chatVars, mcpVars, memories, pulse, race>>

\* the round's tool call is none of the manager's
OfferOther ==
    /\ probe.stage = "turn"
    /\ probe.awaiting = "tool"
    /\ probe' = [probe EXCEPT !.awaiting = "model"]
    /\ UNCHANGED <<chatVars, mcpVars, memories, pulse, race>>

NextOffer ==
    \/ OfferBegin
    \/ OfferRound
    \/ OfferStarts
    \/ OfferStops
    \/ OfferOther

SpecOffer == InitQuiet /\ [][NextOffer]_vars

(***************************************************************************)
(* A call dispatched under a configuration snapshot.                       *)
(***************************************************************************)
\* tools a configuration can suppress
GatedNames == {"run_command", "memory_create", "mcp_server_create"}

GateProbe ==
    /\ probe.stage = "none"
    /\ \E snap \in ToolSnapshots, name \in GatedNames :
          /\ ~snap.given => snap.tc = DefaultToolsConfig
          /\ probe' = [stage |-> "called", snap |-> snap, name |-> name]
    /\ UNCHANGED <<chatVars, mcpVars, memories, pulse, race>>

\* handle_tool_call(name, arguments, ..., builtin_tools_config=snap.tc)
GateEnds ==
    /\ probe.stage = "called"
    /\ probe' = [stage |-> "dispatched", snap |-> probe.snap, name |-> probe.name,
                 via |-> RoutedTo(NewManager, probe.name,
                                  probe.snap.background_names = "some")]
    /\ UNCHANGED <<chatVars, mcpVars, memories, pulse, race>>

NextGate ==
    \/ GateProbe
    \/ GateEnds

SpecGate == InitQuiet /\ [][NextGate]_vars

NextDispatch ==
    \/ Probe
    \/ ProbeEnds

SpecDispatch == InitQuiet /\ [][NextDispatch]_vars

\* one coroutine at a time, then a request and a heartbeat side by side
InitSend == Init /\ turns = MaxTurns /\ beats = 0
InitHb == Init /\ turns = 0 /\ beats = MaxBeats
InitChat == Init /\ turns = ConcTurns /\ beats = MaxBeats

SpecSend == InitSend /\ [][NextSend]_vars
SpecHb == InitHb /\ [][NextHb]_vars
SpecChat == InitChat /\ [][NextChat]_vars

\* requests and heartbeats that do not overlap
NextAlone ==
    \/ task["hb"].pc \in {"idle", "returned"} /\ NextSend
    \/ task["user"].pc \in {"idle", "returned"} /\ NextHb

SpecAlone == InitChat /\ [][NextAlone]_vars


(***************************************************************************)
(* Properties of the conversation engine.                                  *)
(***************************************************************************)
\* position of the invocation's own user message in its context
LastUser(ctx) ==
    CHOOSE i \in 1..Len(ctx) :
        ctx[i].role = "user" /\ \A j \in (i + 1)..Len(ctx) : ctx[j].role # "user"

\* responses of this invocation that requested tool calls, as the context shows
ToolRounds(ctx) ==
    Cardinality({ i \in (LastUser(ctx) + 1)..Len(ctx) : ctx[i].role = "assistant" })

\* C1: a send_message invocation issues at most 10 model calls; a further
\* model call is issued only while every response so far requested tool
\* calls, the reply is taken from the first plain-text response, and after 10
\* responses that all requested tool calls the invocation returns the fixed
\* fallback string without an 11th model call.
C1_AtMostTenModelCalls ==
    LET st == task["user"] IN
    /\ st.model_calls <= 10
    /\ st.pc \in {"await_model", "lock_reply"} => ToolRounds(st.ctx) = st.model_calls - 1
    /\ (st.pc = "returned" /\ st.result = FALLBACK) =>
          st.model_calls = 10 /\ ToolRounds(st.ctx) = 10
    /\ (st.pc = "returned" /\ st.result \notin {FALLBACK, Raised}) =>
          ToolRounds(st.ctx) = st.model_calls - 1
    /\ (st.pc = "returned" /\ st.result # Raised /\ st.model_calls = 10
            /\ ToolRounds(st.ctx) = 10) => st.result = FALLBACK

C1_Witness ==
    /\ task["user"].pc = "returned"
    /\ task["user"].result = FALLBACK
    /\ task["user"].model_calls = 10

\* C8: when send_message issues a model call after a response that requested
\* tool calls, every requested call has been dispatched and has returned, and
\* the in-flight context ends with that response's assistant message followed
\* by one tool-result message per requested call, in request order, each
\* carrying the id of its call.
C8_RoundsSequential ==
    LET st == task["user"]
        k == Len(st.calls)
        n == Len(st.ctx)
        d == Len(st.dispatched)
    IN (st.pc = "await_model" /\ st.round > 1) =>
          /\ n > k
          /\ st.ctx[n - k].role = "assistant"
          /\ st.ctx[n - k].tool_calls = st.calls
          /\ \A i \in 1..k :
                /\ st.ctx[n - k + i].role = "tool"
                /\ st.ctx[n - k + i].tool_call_id = st.calls[i].id
          /\ d >= k
          /\ \A i \in 1..k : st.dispatched[d - k + i].id = st.calls[i].id
          /\ \A i \in 1..d : st.dispatched[i].done

C8_Witness ==
    /\ task["user"].pc = "await_model"
    /\ task["user"].round > 1
    /\ Len(task["user"].calls) = 2

\* C7: every change of the session's message list happens in a step of a
\* coroutine that holds the session lock.
C7_MutationsUnderLock == [][messages' # messages => lock # "free"]_vars

RECURSIVE CallsIn(_)
\* the tool calls the responses in a context requested, in order
CallsIn(ctx) == IF ctx = <<>> THEN <<>> ELSE Head(ctx).tool_calls \o CallsIn(Tail(ctx))

\* ids of the send_message calls answered in place
AnsweredInPlace(ctx) ==
    { ctx[i].tool_call_id :
        i \in { j \in 1..Len(ctx) : ctx[j].role = "tool" /\ ctx[j].content = MessageSent } }

\* the non-empty texts of the answered send_message calls, in request order
RequestedTexts(ctx) ==
    LET cs == SelectSeq(CallsIn(ctx),
                        LAMBDA c : /\ c.name = "send_message"
                                   /\ c.id \in AnsweredInPlace(ctx)
                                   /\ c.text.body # EmptyStr)
    IN [i \in 1..Len(cs) |-> cs[i].text.body]

AsAssistantMsgs(texts) == [i \in 1..Len(texts) |-> AssistantMsg(texts[i])]

C9Step ==
    LET hb == task["hb"]
        hb2 == task'["hb"]
    IN
    /\ \A i \in 1..Len(hb2.dispatched) : hb2.dispatched[i].name # "send_message"
    /\ hb2.pc # "idle" => hb2.sent_messages = RequestedTexts(hb2.ctx)
    /\ hb2.pc = "lock_append" => hb2.sent_messages # <<>>
    /\ (hb.pc = "lock_append" /\ hb2.pc = "returned") =>
          /\ lock = "hb"
          /\ messages' = messages \o AsAssistantMsgs(hb.sent_messages)
          /\ hb2.result = hb.sent_messages
    /\ (hb.pc \notin {"lock_append", "returned"} /\ hb2.pc = "returned") =>
          /\ hb2.sent_messages = <<>>
          /\ hb2.result = None
          /\ messages' = messages
    /\ (hb2 # hb /\ hb.pc # "lock_append") => messages' = messages

ServerNames == { SafeName(arg).name : arg \in { a \in NameArgs : SafeName(a).ok } }

OwnedTools(m, name) == { tn \in DOMAIN m.tools : m.tools[tn] = name }

\* the tool table keeps every entry it held, with its owner
KeepsTools(m, m2, names) ==
    \A tn \in names : tn \in DOMAIN m2.tools /\ m2.tools[tn] = m.tools[tn]

Seen(names) == { names[i] : i \in 1..Len(names) }

\* C2: a successful start of an AI server adds the tool names it declares,
\* owned by it, to what the tool table held before; a stop removes the names
\* the server registered and leaves every tool owned by another server in the
\* table with its owner, also when two servers declare a same-named tool.
C2_ToolTableFrame ==
    [][/\ (last'.op = "start" /\ last'.result = "started") =>
             /\ KeepsTools(mcp, mcp', DOMAIN mcp.tools)
             /\ \A tn \in Seen(mcp'.ai_tools[last'.name]) :
                   tn \in DOMAIN mcp'.tools /\ mcp'.tools[tn] = last'.name
             /\ DOMAIN mcp'.tools = DOMAIN mcp.tools \cup Seen(mcp'.ai_tools[last'.name])
       /\ (last'.op = "stop" /\ last'.result = "stopped") =>
             /\ KeepsTools(mcp, mcp', DOMAIN mcp.tools \ OwnedTools(mcp, last'.name))
             /\ OwnedTools(mcp', last'.name) = {}
      ]_vars

Absent(m, d, name) ==
    /\ name \notin d.dirs
    /\ name \notin DOMAIN d.manifest
    /\ name \notin m.ai_sessions
    /\ OwnedTools(m, name) = {}

Stopped(m, d, name) ==
    /\ name \in d.dirs
    /\ name \in DOMAIN d.manifest
    /\ name \notin m.ai_sessions
    /\ OwnedTools(m, name) = {}

Running(m, d, name) ==
    /\ name \in d.dirs
    /\ name \in DOMAIN d.manifest
    /\ name \in m.ai_sessions
    /\ name \in DOMAIN m.ai_tools
    /\ \A tn \in Seen(m.ai_tools[name]) : tn \in DOMAIN m.tools /\ m.tools[tn] = name

StateOf(m, d, name) ==
    IF Absent(m, d, name) THEN "absent"
    ELSE IF Stopped(m, d, name) THEN "stopped"
    ELSE IF Running(m, d, name) THEN "running"
    ELSE "none"

\* the transitions of one server name and the tool calls that make them
Transitions ==
    { <<"absent", "create", "stopped">>, <<"absent", "create", "running">>,
      <<"stopped", "start", "running">>, <<"running", "stop", "stopped">>,
      <<"stopped", "delete", "absent">>, <<"running", "delete", "absent">> }

\* C3: after every completed create / edit / start / stop / delete call each
\* AI server name is absent, stopped or running, and a call changes the state
\* of a name only along absent -> stopped (create), stopped -> running
\* (start, create with auto_start), running -> stopped (stop) and
\* stopped or running -> absent (delete).
C3_ThreeStates ==
    [][last'.op \in {"create", "edit", "start", "stop", "delete"} =>
          \A name \in ServerNames :
             /\ StateOf(mcp', disk', name) # "none"
             /\ \/ StateOf(mcp', disk', name) = StateOf(mcp, disk, name)
                \/ <<StateOf(mcp, disk, name), last'.op, StateOf(mcp', disk', name)>>
                      \in Transitions
      ]_vars

\* C10: a start of an AI server that fails leaves no entry for the server in
\* the connection table, the exit-stack table, the per-server tool lists or
\* the tool table, so the server does not count as running.
C10_FailedStartLeavesNothing ==
    (/\ last.op \in {"start", "create"}
     /\ last.result \in {"Failed to start server", "created but failed to start"}) =>
        /\ last.name \notin mcp.ai_sessions
        /\ last.name \notin mcp.ai_exit_stacks
        /\ last.name \notin DOMAIN mcp.ai_tools
        /\ OwnedTools(mcp, last.name) = {}

EditCalls == <<"stop_ai_server", "write", "start_ai_server">>

\* C4 as stated: an edit with valid code of a running server stops it,
\* rewrites server.py, starts it, and the server is running at the return; an
\* edit of a stopped server rewrites the code and leaves it stopped.
C4_EditKeepsRunning ==
    (last.op = "edit" /\ last.calls # <<>>) =>
        /\ disk.server_py[last.name].id = last.code
        /\ last.calls = EditCalls => last.name \in mcp.ai_sessions
        /\ last.calls # EditCalls => last.name \notin mcp.ai_sessions

C4Step ==
    LET name == last'.name
        old == Seen(PopAiTools(mcp, name))
    IN (last'.op = "edit" /\ last'.calls # <<>>) =>
          /\ disk'.server_py[name].id = last'.code
          /\ disk'.manifest[name].modified_at = Now
          /\ IF name \in mcp.ai_sessions
             THEN /\ last'.calls = EditCalls
                  /\ last'.result \in {"updated and restarted", "updated but failed to restart"}
                  /\ \A tn \in old :
                        (tn \in DOMAIN mcp'.tools /\ mcp'.tools[tn] = name) =>
                           /\ last'.result = "updated and restarted"
                           /\ tn \in Seen(disk'.server_py[name].tools)
                  /\ last'.result = "updated and restarted" =>
                        /\ name \in mcp'.ai_sessions
                        /\ mcp'.ai_tools[name] = disk'.server_py[name].tools
                        /\ \A tn \in Seen(mcp'.ai_tools[name]) : mcp'.tools[tn] = name
             ELSE /\ last'.calls = <<"write">>
                  /\ last'.result = "updated (not running)"
                  /\ mcp' = mcp

\* C4: an edit with valid code of a running server stops it (the tools it had
\* registered leave the table), then rewrites server.py, then starts it (on
\* the rewritten code); when the restart succeeds the server is running at
\* the return with the tools of the new code, otherwise the call reports
\* "updated but failed to restart"; an edit of a stopped server rewrites the
\* code and leaves the manager as it was, the server still stopped.
C4_EditRestarts == [][C4Step]_vars

C4_Witness ==
    /\ last.op = "edit"
    /\ last.result = "updated and restarted"
    /\ last.name \in mcp.ai_sessions
    /\ disk.server_py[last.name].id = last.code

\* C5: mcp_server_start on a running server and mcp_server_stop on a server
\* that is not running return an informational string and leave the manager's
\* tables, the manifest and the server files as they were.
C5_NoOpStartStop ==
    [][/\ (last'.op = "start" /\ last'.name \in mcp.ai_sessions) =>
             /\ last'.result = "is already running."
             /\ mcp' = mcp /\ disk' = disk
       /\ (last'.op = "stop" /\ last'.name # "" /\ last'.name \notin mcp.ai_sessions) =>
             /\ last'.result = "is not running."
             /\ mcp' = mcp /\ disk' = disk
      ]_vars

C5_Witness ==
    /\ last.op = "start"
    /\ last.result = "is already running."
    /\ last.name \in mcp.ai_sessions

(***************************************************************************)
(* Properties of the tool dispatcher.                                      *)
(***************************************************************************)
\* C6: for every tool name and every arguments value handle_tool_call returns
\* a string; no exception leaves it, whatever the handler, the MCP subprocess
\* call or the animation/background callback does and whatever the type of
\* an argument.
C6_AlwaysReturnsString == probe.stage # "raises"


(***************************************************************************)
(* Properties of MCPManager.call_tool.                                     *)
(***************************************************************************)
\* the entry of the tool table was written by the start of a running AI
\* server (static servers register at boot, before any AI server starts)
RegisteredByAi(m, tn) ==
    /\ m.tools[tn] \in DOMAIN m.ai_tools
    /\ tn \in Seen(m.ai_tools[m.tools[tn]])

\* C11: a call that call_tool forwards goes to the live connection of the
\* server that registered the name in the tool table: the AI server's
\* connection for a tool an AI server registered, the static connection
\* otherwise, also when an AI server has the name of a static server.
C11_ForwardsToRegistrant ==
    (last.op = "call_tool" /\ last.calls # <<>>) =>
        last.calls = <<IF RegisteredByAi(mcp, last.name) THEN "ai" ELSE "static",
                       mcp.tools[last.name]>>


\* C12: call_tool returns an error string and does not raise when the name
\* is not in the tool table, and when the server the table records as the
\* owner has no live connection in the static or the AI connection table.
C12_ErrorStrings ==
    probe.stage = "returned" =>
        LET m == probe.mcp IN
        /\ probe.name \notin DOMAIN m.tools =>
              /\ probe.r.outcome = "string"
              /\ probe.r.result = "Error: unknown MCP tool"
              /\ probe.r.via = <<>>
        /\ (/\ probe.name \in DOMAIN m.tools
            /\ m.tools[probe.name] \notin m.sessions \cup m.ai_sessions) =>
              /\ probe.r.outcome = "string"
              /\ probe.r.result = "Error: MCP server is not connected"
              /\ probe.r.via = <<>>

C12_Witness ==
    /\ probe.stage = "returned"
    /\ probe.name \in DOMAIN probe.mcp.tools
    /\ probe.mcp.tools[probe.name] \notin probe.mcp.sessions \cup probe.mcp.ai_sessions
    /\ probe.r.outcome = "string"


(***************************************************************************)
(* Properties of MCPManager.shutdown.                                      *)
(***************************************************************************)
\* position of the first entry of the log for the given call, 0 when none
LogIndex(log, call, name) ==
    IF \E i \in 1..Len(log) : log[i][1] = call /\ log[i][2] = name
    THEN CHOOSE i \in 1..Len(log) :
            /\ log[i][1] = call /\ log[i][2] = name
            /\ \A j \in 1..(i - 1) : ~(log[j][1] = call /\ log[j][2] = name)
    ELSE 0

\* C13: shutdown stops every AI server that was running before it closes the
\* static connections, whether or not closing one of the AI servers raised;
\* when shutdown returns, the static and the AI connection tables, the
\* exit-stack table and the tool table are empty.
C13_ShutdownClosesAll ==
    /\ life.phase \in {"done", "raised"} =>
          /\ LogIndex(life.log, "close_static", "") = Len(life.log)
          /\ \A name \in life.snap :
                /\ LogIndex(life.log, "stop_ai_server", name) > 0
                /\ LogIndex(life.log, "stop_ai_server", name) < Len(life.log)
          /\ mcp.ai_sessions = {}
          /\ mcp.ai_exit_stacks = {}
    /\ life.phase = "done" =>
          /\ mcp.sessions = {}
          /\ mcp.tools = EmptyDict
          /\ mcp.ai_tools = EmptyDict

C13_Witness ==
    /\ life.phase = "done"
    /\ Cardinality(life.snap) = 2
    /\ \E i \in 1..Len(life.log) : life.log[i][1] = "stop_ai_server" /\ life.log[i][3]
    /\ mcp.tools = EmptyDict


(***************************************************************************)
(* Properties of start_servers_from_manifest.                              *)
(***************************************************************************)
Visits(log, name) == { i \in 1..Len(log) : log[i][2] = name }

\* C14: start_servers_from_manifest calls start_ai_server for exactly the
\* manifest entries with auto_start true whose server.py exists, once each;
\* an entry with auto_start false or without server.py is never started; a
\* start that fails does not keep the later entries from being visited.
C14_StartsAutoStartEntries ==
    (life.phase = "up" /\ life.snap # {}) =>
        \A name \in life.snap :
           /\ Cardinality(Visits(life.log, name)) = 1
           /\ LogIndex(life.log, "start_ai_server", name) > 0
                 <=> (disk.manifest[name].auto_start /\ name \in DOMAIN disk.server_py)
           /\ (~disk.manifest[name].auto_start \/ name \notin DOMAIN disk.server_py)
                 => name \notin mcp.ai_sessions \cup mcp.ai_stderr_files

C14_Witness ==
    /\ life.phase = "up"
    /\ Len(life.log) = 2
    /\ life.log[1][1] = "start_ai_server" /\ life.log[1][3]
    /\ life.log[2][1] = "start_ai_server" /\ ~life.log[2][3]
    /\ life.log[2][2] \in mcp.ai_sessions


(***************************************************************************)
(* Properties of the sandbox validator.                                    *)
(***************************************************************************)
IsImport(node) == node.type \in {"Import", "ImportFrom"}

HasNode(code, type, name) ==
    \E i \in 1..Len(code.nodes) : code.nodes[i].type = type /\ code.nodes[i].name = name

\* the node is an import of a module outside the permitted set, a call to a
\* dangerous primitive or an access to a dangerous attribute
Violates(node, allow_network) ==
    \/ /\ IsImport(node)
       /\ node.name \notin ALLOWED_MODULES
       /\ ~(allow_network /\ node.name \in NETWORK_MODULES)
    \/ node.type = "Call" /\ node.name \in DANGEROUS_CALLS
    \/ node.type = "Attribute" /\ node.name \in DANGEROUS_ATTRS

\* C15: validate_code rejects a source that imports a network module when
\* allow_network is false and accepts the same source when allow_network is
\* true (nothing else in it being forbidden); it rejects a call to eval and an
\* access to __globals__ for both values of allow_network.
C15_NetworkGate ==
    (probe.stage = "validated" /\ probe.code.parses) =>
        LET code == probe.code
            net == \E i \in 1..Len(code.nodes) :
                      IsImport(code.nodes[i]) /\ code.nodes[i].name \in NETWORK_MODULES
        IN
        /\ (net /\ ~probe.allow_network) => ~probe.r.ok
        /\ (/\ net /\ probe.allow_network
            /\ \A i \in 1..Len(code.nodes) : ~Violates(code.nodes[i], TRUE)) => probe.r.ok
        /\ HasNode(code, "Call", "eval") => ~probe.r.ok
        /\ HasNode(code, "Attribute", "__globals__") => ~probe.r.ok

C15_Witness ==
    /\ probe.stage = "validated"
    /\ probe.allow_network
    /\ HasNode(probe.code, "ImportFrom", "socket")
    /\ probe.r.ok
    /\ ~ValidateCode(probe.code, FALSE).ok

\* C16: for a source that parses, validate_code's message has one entry, with
\* the node's line, for every import (direct or from, absolute or relative)
\* of a module outside the permitted set, every call to a dangerous primitive
\* and every access to a dangerous attribute, and the source is accepted
\* exactly when it has no such node.
C16_ReportsEveryViolation ==
    (probe.stage = "validated" /\ probe.code.parses) =>
        LET bad == SelectSeq(probe.code.nodes,
                             LAMBDA node : Violates(node, probe.allow_network))
        IN
        /\ Len(probe.r.errors) = Len(bad)
        /\ \A i \in 1..Len(bad) : probe.r.errors[i][1] = bad[i].lineno
        /\ probe.r.ok <=> bad = <<>>


\* C17: the names the wrapper's import interceptor allows are the names
\* validate_code accepts, for each value of allow_network, and an import of
\* any other name executed by the server's code ends in an ImportError.
C17_InterceptorMatchesValidator ==
    /\ \A allow_network \in BOOLEAN :
          WrapperAllowed(allow_network) =
              { base \in ALLOWED_MODULES \cup NETWORK_MODULES \cup ImportNames :
                    CheckModule(base, allow_network, 1) = <<>> }
    /\ probe.stage \in {"running", "served", "crashed"} =>
          \A i \in 1..Len(probe.done) :
              probe.done[i][1] \notin WrapperAllowed(probe.allow_network)
                  => probe.done[i][2] = "ImportError"


(***************************************************************************)
(* Properties of the sandbox environment.                                  *)
(***************************************************************************)
PassedKeys == {"PATH", "VIRTUAL_ENV", "LD_LIBRARY_PATH", "HOME"}

\* the two host environments agree on the variables that are passed on
AgreeOnPassed(e1, e2) ==
    \A k \in PassedKeys :
        /\ k \in DOMAIN e1 <=> k \in DOMAIN e2
        /\ k \in DOMAIN e1 => e1[k] = e2[k]

\* C18: the environment build_sandbox_env returns has keys among
\* PYTHONDONTWRITEBYTECODE, PYTHONUNBUFFERED, MCP_SANDBOX_DIR, PATH,
\* VIRTUAL_ENV, LD_LIBRARY_PATH and HOME, and every host environment that
\* agrees with the caller's on PATH, VIRTUAL_ENV, LD_LIBRARY_PATH and HOME
\* yields the same environment for the same server directory.
C18_EnvNoninterference ==
    probe.stage = "built" =>
        /\ DOMAIN probe.env \subseteq
              {"PYTHONDONTWRITEBYTECODE", "PYTHONUNBUFFERED", "MCP_SANDBOX_DIR"}
                  \cup PassedKeys
        /\ \A other \in HostEnvs, allow_network \in BOOLEAN :
              AgreeOnPassed(probe.environ, other) =>
                  BuildSandboxEnv(other, probe.server_dir, allow_network) = probe.env

C18_Witness ==
    /\ probe.stage = "built"
    /\ "OPENAI_API_KEY" \in DOMAIN probe.environ
    /\ "PATH" \in DOMAIN probe.environ
    /\ "HOME" \notin DOMAIN probe.environ
    /\ DOMAIN probe.env =
          {"PYTHONDONTWRITEBYTECODE", "PYTHONUNBUFFERED", "MCP_SANDBOX_DIR", "PATH"}
    /\ probe.env["PATH"] = probe.environ["PATH"]


(***************************************************************************)
(* Rejected authoring calls.                                               *)
(***************************************************************************)
RejectionReasons ==
    {"Error: name is required", "Error: bad name", "Error: code is required.",
     "Error: server already exists.", "Error: server does not exist.",
     "Code validation failed"}

\* the sources validate_code refuses when the network is not allowed
RefusedCodes == {CodeNet.id, CodeEval.id, CodeSyntax.id}

\* the call that has just returned was one the handler must reject: an invalid
\* name, empty code, code that fails validation, a create on an existing
\* server, an edit on a nonexistent one
MustReject ==
    \/ last'.name = ""
    \/ last'.code = CodeBlank.id
    \/ last'.code \in RefusedCodes
    \/ last'.op = "create" /\ last'.name \in disk.dirs
    \/ last'.op = "edit" /\ last'.name \notin disk.dirs

C19Step ==
    (ops' = ops - 1 /\ last'.op \in {"create", "edit"}) =>
        /\ MustReject => last'.result \in RejectionReasons
        /\ last'.result \in RejectionReasons =>
              /\ MustReject
              /\ last'.calls = <<>>
              /\ mcp' = mcp
              /\ disk' = disk

\* C19: a rejected mcp_server_create or mcp_server_edit (invalid name, empty
\* code, code failing validate_code, create on an existing server, edit on a
\* nonexistent server) returns the reason as its result and leaves the server
\* files, the manifest, the connection tables and the tool table as they
\* were, so a running server keeps running with its old code and tools.
C19_RejectionChangesNothing == [][C19Step]_vars

C19_Witness ==
    /\ last.op = "edit"
    /\ last.result = "Code validation failed"
    /\ last.code = CodeEval.id
    /\ last.name \in mcp.ai_sessions
    /\ disk.server_py[last.name] = CodeX
    /\ mcp.ai_tools[last.name] = CodeX.tools
    /\ \A tn \in Seen(CodeX.tools) : mcp.tools[tn] = last.name


(***************************************************************************)
(* Properties of the memory files.                                         *)
(***************************************************************************)
C20Step ==
    LET was == memories.last
        now == memories'.last
    IN
    /\ (/\ was.op = "create" /\ was.result.kind = "created"
        /\ now.op = "read" /\ now.filename = was.filename)
          => now.result = MemResult("text", was.content)
    /\ (/\ now.op = "create" /\ now.filename # <<>>
        /\ SafeFilename(now.filename) \in DOMAIN memories.files)
          => /\ now.result.kind = "already exists"
             /\ memories'.files = memories.files

\* C20: for every non-empty filename and every content, memory_create
\* followed by memory_read of the same filename returns exactly the content,
\* and memory_create on a filename that already exists is rejected and the
\* existing file keeps its content.
C20_CreateReadRoundTrip == [][C20Step]_vars


(***************************************************************************)
(* Properties of memory_patch.                                             *)
(***************************************************************************)
\* the positions at which sub occurs in text
Occurrences(text, sub) ==
    { i \in 1..(Len(text) - Len(sub) + 1) : SubSeq(text, i, i + Len(sub) - 1) = sub }

\* text with the occurrence of old at position i replaced by new
ReplacedAt(text, i, old, new) ==
    SubSeq(text, 1, i - 1) \o new \o SubSeq(text, i + Len(old), Len(text))

\* the step is a memory_patch call that reached the file
PatchedFile ==
    /\ memories'.last.op = "patch"
    /\ memories'.last.filename # <<>>
    /\ memories'.last.old # <<>>
    /\ SafeFilename(memories'.last.filename) \in DOMAIN memories.files

C21Step ==
    PatchedFile =>
        LET now == memories'.last
            path == SafeFilename(now.filename)
            text == ReadText(memories.files[path])
            occ == Occurrences(text, now.old)
        IN IF Cardinality(occ) = 1
           THEN /\ now.result.kind = "patched"
                /\ memories'.files =
                      Put(memories.files, path,
                          WriteText(ReplacedAt(text, CHOOSE i \in occ : TRUE,
                                               now.old, now.new)))
           ELSE /\ now.result.kind \in {"Error: old_string not found",
                                        "Error: old_string matches several times"}
                /\ memories'.files = memories.files

\* C21: memory_patch replaces old_string by new_string only when old_string
\* occurs exactly once in the file; when it occurs at no position or at two
\* or more positions it returns an error string and leaves the file unchanged.
C21_PatchOnlyUniqueMatch == [][C21Step]_vars

\* the call repeats the call before it, which patched the file at the single
\* occurrence of old_string
RepeatsPatch ==
    /\ PatchedFile
    /\ memories.last.op = "patch"
    /\ memories.last.result.kind = "patched"
    /\ Cardinality(Occurrences(memories.last.content, memories.last.old)) = 1
    /\ memories'.last.filename = memories.last.filename
    /\ memories'.last.old = memories.last.old
    /\ memories'.last.new = memories.last.new

PatchesSingle ==
    (PatchedFile /\ Cardinality(Occurrences(memories'.last.content,
                                            memories'.last.old)) = 1) =>
        /\ memories'.last.result.kind = "patched"
        /\ memories'.files =
              Put(memories.files, SafeFilename(memories'.last.filename),
                  WriteText(ReplacedAt(memories'.last.content,
                                       CHOOSE i \in Occurrences(memories'.last.content,
                                                                memories'.last.old) : TRUE,
                                       memories'.last.old, memories'.last.new)))

C22Step ==
    /\ PatchesSingle
    /\ RepeatsPatch =>
          LET now == memories'.last
              occ == Occurrences(now.content, now.old)
          IN /\ occ = {} =>
                   /\ now.result.kind = "Error: old_string not found"
                   /\ memories'.files = memories.files
             /\ occ # {} =>
                   now.result.kind \in {"patched", "Error: old_string matches several times"}

DirectChild(path) ==
    /\ Len(path) >= 1
    /\ path[Len(path)] = ".md"
    /\ \A i \in 1..Len(path) : path[i] # "/"

\* the paths whose file the step created, removed or rewrote
Changed ==
    { path \in DOMAIN memories.files \cup DOMAIN memories'.files :
          \/ path \notin DOMAIN memories.files
          \/ path \notin DOMAIN memories'.files
          \/ memories'.files[path] # memories.files[path] }

C23Step ==
    /\ \A path \in Changed : DirectChild(path)
    /\ \A path \in DOMAIN OutsideFiles :
          /\ path \in DOMAIN memories'.files
          /\ memories'.files[path] = OutsideFiles[path]
    /\ memories'.last.result.kind = "text" =>
          \E path \in DOMAIN memories.files :
              /\ DirectChild(path)
              /\ memories'.last.result.text = ReadText(memories.files[path])
    /\ (memories'.last.op = "create" /\ memories'.last.filename # <<>>
            /\ \A path \in DOMAIN memories.files : ~DirectChild(path))
          => memories'.last.result.kind = "created"

\* C23: for every filename argument, memory_create, memory_read, memory_edit,
\* memory_delete and memory_patch create, read, rewrite and remove only files
\* that are direct children of the memories directory (directory components
\* and a trailing .md are stripped before the path is formed), so the files
\* outside it stay as they were and are never returned.
C23_OnlyDirectChildren == [][C23Step]_vars

C23_Witness ==
    /\ memories.last.op = "delete"
    /\ memories.last.filename = <<"..", "/", "x">>
    /\ memories.last.result.kind = "deleted"
    /\ <<"x", ".md">> \notin DOMAIN memories.files
    /\ \A path \in DOMAIN OutsideFiles :
          path \in DOMAIN memories.files /\ memories.files[path] = <<"s">>


(***************************************************************************)
(* Properties of run_command.                                              *)
(***************************************************************************)
\* C24: handle_run_command returns within 30 seconds; a command still
\* running at the timeout is killed and the result is the timeout error
\* string; and when the call returns, no process it started is still running
\* or an unreaped zombie.
C24_NoProcessOutlivesCall ==
    probe.stage = "returned" =>
        /\ probe.elapsed <= RUN_TIMEOUT
        /\ (~probe.command.blank /\ ~probe.command.spawn_raises
                /\ probe.command.secs > RUN_TIMEOUT)
              => probe.result = "Error: command timed out after 30 seconds."
        /\ probe.shell \in {"none", "reaped"}
        /\ probe.children = 0


(***************************************************************************)
(* Properties of mcp_server_logs.                                          *)
(***************************************************************************)
\* C25: for every requested line count (zero, negative and above 200
\* included) mcp_server_logs returns at most 200 lines, and they are the most
\* recent lines of the server's stderr log.
C25_AtMostCapRecentLines ==
    probe.stage = "logs" =>
        LET got == probe.r.lines
            n == Len(probe.log)
        IN /\ Len(got) <= LOG_CAP
           /\ Len(got) <= n
           /\ got = SubSeq(probe.log, n - Len(got) + 1, n)


(***************************************************************************)
(* Properties of the session and the in-flight context.                    *)
(***************************************************************************)
\* C26: in send_message, when the dispatcher is invoked for a tool call, the
\* session already holds a tool_call audit entry with that call's tool name
\* and arguments.
C26_AuditBeforeDispatch ==
    LET st == task["user"] IN
    st.pc = "await_tool" =>
        \E i \in 1..Len(messages) :
            /\ messages[i].role = "tool_call"
            /\ messages[i].content = <<st.calls[st.idx].name, st.calls[st.idx].text>>

C28_OneUserOneReply ==
    LET st == task["user"] IN
    st.pc = "returned" =>
        LET mine == { i \in 1..Len(messages) : messages[i] = UserMsg(<<"user", st.n>>) } IN
        /\ Cardinality(mine) = 1
        /\ \A i \in mine :
              SubSeq(messages, i + 1, Len(messages)) =
                  IF st.result \in {FALLBACK, Raised} THEN <<>>
                  ELSE <<AssistantMsg(st.result)>>
        /\ st.result = FALLBACK => st.model_calls = MAX_TOOL_ROUNDS
        /\ st.model_calls <= MAX_TOOL_ROUNDS

C28_Witness ==
    LET st == task["user"] IN
    /\ st.pc = "returned"
    /\ st.result = FALLBACK
    /\ st.n = 1
    /\ Len(messages) = 3
    /\ messages[3] = UserMsg(<<"user", 1>>)
    /\ messages[2].role = "assistant"


\* the responses that stand for an exception raised by the model call
Raises(t) == { resp \in Responses(t, task[t].n, task[t].round) : resp.kind = "raise" }

\* what heartbeat does when a call fails: no exception, nothing lost
KeepsAccumulated(hb, out) ==
    /\ out.result # Raised
    /\ out.sent_messages = hb.sent_messages
    /\ out.ctx = hb.ctx
    /\ IF hb.sent_messages # <<>> THEN out.pc = "lock_append"
       ELSE out.pc = "returned" /\ out.result = None

C29Step ==
    LET user == task["user"]
        hb == task["hb"]
        hb2 == task'["hb"]
    IN
    /\ user.pc = "await_model" =>
          /\ Raises("user") # {}
          /\ \A resp \in Raises("user") :
                LET out == SendOnResponse(user, resp) IN
                out.pc = "returned" /\ out.result = Raised
    /\ (user.pc = "await_model" /\ task'["user"].result = Raised) =>
          messages' = messages /\ task'["user"].pc = "returned"
    /\ hb.pc = "await_model" =>
          /\ Raises("hb") # {}
          /\ \A resp \in Raises("hb") : KeepsAccumulated(hb, HbOnResponse(hb, resp))
    /\ hb.pc = "await_tool" => KeepsAccumulated(hb, HbOnToolResult(hb, FALSE))
    /\ hb2.result # Raised
    /\ (hb.pc = "lock_append" /\ hb2.pc = "returned") =>
          /\ messages' = messages \o AsAssistantMsgs(hb.sent_messages)
          /\ hb2.result = hb.sent_messages

\* C29: an exception raised by the model call ends send_message with that
\* exception and no assistant message; in heartbeat an exception of the model
\* call or of a tool dispatch is caught: heartbeat does not raise, and the
\* texts accumulated before the failure are appended to the session and
\* returned.
C29_HeartbeatCatchesSendPropagates == [][C29Step]_vars

C29_Witness ==
    LET hb == task["hb"] IN
    /\ hb.pc = "returned"
    /\ hb.sent_messages # <<>>
    /\ hb.result = hb.sent_messages
    /\ hb.dispatched # <<>>
    /\ ~hb.dispatched[Len(hb.dispatched)].done
    /\ Len(messages) >= Len(hb.sent_messages)
    /\ SubSeq(messages, Len(messages) - Len(hb.sent_messages) + 1, Len(messages))
           = AsAssistantMsgs(hb.sent_messages)
    /\ task["user"].pc = "returned"
    /\ task["user"].result = Raised


(***************************************************************************)
(* Properties of get_builtin_tools.                                        *)
(***************************************************************************)
ListedNames(tools) == { tools[i].name : i \in 1..Len(tools) }

\* C30: the list get_builtin_tools builds is determined by its snapshot:
\* memory_read and memory_list are listed exactly when memory is enabled, the
\* memory write tools only when memory_readonly is false, the background
\* tools only when a background exists, web_search only when a search API key
\* resolves, run_command only when shell execution is enabled, the vector
\* tools only when vector search is enabled and initialised, the
\* mcp_server_* tools only when enabled, and allow_network is a property of
\* mcp_server_create only, and only under the network-allowance flag.
C30_ToolsFollowSnapshot ==
    probe.stage = "tools" =>
        LET snap == probe.snap
            tc == IF snap.given THEN snap.tc ELSE DefaultToolsConfig
            names == ListedNames(probe.tools)
            ws == tc.web_search
        IN
        /\ Cardinality(names) = Len(probe.tools)
        /\ "memory_read" \in names <=> tc.memory
        /\ "memory_list" \in names <=> tc.memory
        /\ names \cap {"memory_create", "memory_edit", "memory_delete", "memory_patch"} # {}
              => tc.memory /\ ~tc.memory_readonly
        /\ names \cap {"get_backgrounds", "set_background"} # {}
              => snap.background_names = "some"
        /\ "web_search" \in names => ws.enabled /\ ws.brave_enabled /\ ws.api_key = "key"
        /\ "run_command" \in names => tc.bash /\ snap.bash_enabled
        /\ names \cap VectorTools # {} => tc.vector_search_enabled /\ snap.collection
        /\ names \cap McpServerTools # {} => tc.mcp_servers
        /\ \A i \in 1..Len(probe.tools) :
              "allow_network" \in probe.tools[i].properties =>
                  /\ probe.tools[i].name = "mcp_server_create"
                  /\ tc.mcp_servers_allow_network

C30_Witness ==
    /\ probe.stage = "tools"
    /\ probe.snap.given
    /\ probe.snap.tc.memory
    /\ probe.snap.tc.memory_readonly
    /\ probe.snap.tc.mcp_servers
    /\ ~probe.snap.tc.mcp_servers_allow_network
    /\ ListedNames(probe.tools) \cap MemoryFileTools = {"memory_read"}
    /\ "memory_list" \in ListedNames(probe.tools)
    /\ "mcp_server_create" \in ListedNames(probe.tools)
    /\ "web_search" \in ListedNames(probe.tools)
    /\ "vector_list" \notin ListedNames(probe.tools)
    /\ probe.snap.tc.vector_search_enabled



(***************************************************************************)
(* Properties of the dispatcher's AI-server branch.                        *)
(***************************************************************************)
\* the step is the dispatcher's mcp_server_create call with these arguments
CreateStepWith(args, outcome) ==
    LET r == HandleCreate(mcp, disk, args, FALSE, Now, outcome) IN
    /\ Serving
    /\ ops' = ops - 1
    /\ last'.op = "create"
    /\ last'.name = SafeName(args.name).name
    /\ last'.code = args.code.id
    /\ last'.result = r.result
    /\ mcp' = r.mcp
    /\ disk' = r.disk

C31Step ==
    \A args \in CreateArgs : \A outcome \in Outcomes :
        ( /\ args.allow_network
          /\ args.code = CodeNet
          /\ SafeName(args.name).ok
          /\ SafeName(args.name).name \notin disk.dirs
          /\ CreateStepWith(args, outcome) )
        => /\ last'.result \in {"created and started", "created but failed to start",
                                "created (not started)"}
           /\ MetaAllowNetwork(disk', SafeName(args.name).name)

\* C31: with mcp_servers_allow_network set in the operator configuration, an
\* mcp_server_create call through the dispatcher with allow_network true and
\* code importing a network module creates the server: the code passes
\* validation and the manifest records allow_network true.
C31_NetworkCreateThroughDispatcher == [][C31Step]_vars



(***************************************************************************)
(* Properties of the heartbeat loop.                                       *)
(***************************************************************************)
C32Step ==
    (pulse.pc = "announce" /\ pulse'.pc = "heartbeat") =>
        /\ pulse.now - pulse.last_user_interaction >= IdleThreshold
        /\ ~pulse.heartbeat_waiting_for_user
        /\ ~pulse.spoke

\* C32: the loop invokes chat_handler.heartbeat() only when the user has been
\* idle for at least the idle threshold and heartbeat_waiting_for_user is
\* false, and not after a heartbeat that returned messages unless
\* record_user_interaction has been called since.
C32_HeartbeatOnlyWhenIdle == [][C32Step]_vars



(***************************************************************************)
(* Properties of tool-name collisions.                                     *)
(***************************************************************************)
\* the registrations of a name by servers, in the order they happened
RegistrantsOf(regs, name) ==
    SelectSeq(regs, LAMBDA reg : \E i \in 1..Len(reg.names) : reg.names[i] = name)

\* C33: when two sources register the same tool name, a call to that name is
\* routed to the most recently registered source: to the last server that
\* registered it, whether the earlier registrant is a built-in, a statically
\* configured server or an AI-created server.
C33_LastRegistrantWins ==
    probe.stage = "routed" =>
        LET rs == RegistrantsOf(probe.regs, probe.name) IN
        rs # <<>> => probe.via = <<rs[Len(rs)].kind, rs[Len(rs)].server>>



(***************************************************************************)
(* Properties of the manager under concurrent callers.                     *)
(***************************************************************************)
\* C34: under any interleaving of concurrent start, stop and restart calls
\* on one AI server, once the calls have returned at most one subprocess
\* connection exists for the name, and every subprocess that was spawned and
\* is not closed is the one the exit-stack table tracks.
C34_NoOrphanedSubprocess ==
    (\A c \in Tasks : race.co[c].pc = "idle") =>
        /\ Cardinality(race.open) <= 1
        /\ race.open \subseteq {race.ai_exit_stacks}



(***************************************************************************)
(* Properties of the session under concurrent invocations.                 *)
(***************************************************************************)
C35Step ==
    (task["user"].pc = "lock_reply" /\ task'["user"].pc = "returned") =>
        /\ messages # <<>>
        /\ messages[Len(messages)] = UserMsg(<<"user", task["user"].n>>)
        /\ messages' = Append(messages, AssistantMsg(task'["user"].result))

\* C35: under any interleaving of send_message and heartbeat, the assistant
\* reply that send_message stores is appended directly after the user
\* message it answers: no message of another invocation lies between them.
C35_ReplyFollowsItsUserMessage == [][C35Step]_vars



(***************************************************************************)
(* Properties of the tool set offered during a turn.                       *)
(***************************************************************************)
\* C36: within one send_message invocation every round offers the model the
\* same tool set, the one enumerated before the first model call, whatever
\* the turn's tool calls have registered or deregistered since.
C36_SameToolsEveryRound ==
    probe.stage = "turn" =>
        \A i \in 1..Len(probe.offered) : probe.offered[i] = probe.first

C36_Witness ==
    /\ probe.stage = "turn"
    /\ Len(probe.offered) = MaxOfferRounds
    /\ GetAllTools(probe.mcp) # probe.first
    /\ "y" \in GetOpenaiTools(probe.mcp)
    /\ "x" \notin GetOpenaiTools(probe.mcp)
    /\ "x" \in probe.offered[MaxOfferRounds]



(***************************************************************************)
(* Properties of the dispatcher under a configuration.                     *)
(***************************************************************************)
\* C37: handle_tool_call runs a built-in handler only for a tool that
\* get_builtin_tools lists under the same configuration: a call naming a
\* suppressed tool (run_command with shell execution disabled, a memory
\* write tool under memory_readonly, an mcp_server_* tool with AI-server
\* management disabled) does not reach its handler.
C37_SuppressedToolsNotExecuted ==
    (probe.stage = "dispatched" /\ probe.via = <<"builtin", probe.name>>) =>
        probe.name \in ListedNames(GetBuiltinTools(probe.snap))



(***************************************************************************)
(* Properties of the manager's tables.                                     *)
(***************************************************************************)
\* C38: after any sequence of completed connect, start, stop, restart and
\* shutdown operations, every entry of the tool table names a server that
\* has a live connection, and the AI connection table, the exit-stack table
\* and the per-server tool lists have the same keys.
C38_TablesConsistent ==
    life.phase \in {"up", "done", "raised"} =>
        /\ \A tn \in DOMAIN mcp.tools : mcp.tools[tn] \in mcp.sessions \cup mcp.ai_sessions
        /\ mcp.ai_sessions = mcp.ai_exit_stacks
        /\ mcp.ai_sessions = DOMAIN mcp.ai_tools



(***************************************************************************)
(* Properties of the manifest.                                             *)
(***************************************************************************)
\* what creation recorded in a manifest entry
Recorded(meta) ==
    <<meta.description, meta.allow_network, meta.auto_start, meta.created_at>>

\* C39: mcp_server_start, mcp_server_stop and mcp_server_logs leave the
\* manifest as it is and mcp_server_edit changes only modified_at of the
\* edited entry, so what creation recorded stays until delete; a server
\* created with auto_start and then stopped is therefore started again by
\* the next start_servers_from_manifest.
C39Step ==
    LET op == last'.op
        name == last'.name
    IN
    (ops' = ops - 1) =>
        /\ op \in {"start", "stop", "logs"} => disk'.manifest = disk.manifest
        /\ op = "edit" =>
              /\ DOMAIN disk'.manifest = DOMAIN disk.manifest
              /\ \A n \in DOMAIN disk.manifest :
                    /\ DOMAIN disk'.manifest[n] = DOMAIN disk.manifest[n]
                    /\ n # name => disk'.manifest[n] = disk.manifest[n]
        /\ op \in {"create", "edit", "start", "stop", "logs"} =>
              \A n \in DOMAIN disk.manifest :
                 /\ n \in DOMAIN disk'.manifest
                 /\ Recorded(disk'.manifest[n]) = Recorded(disk.manifest[n])
                 /\ n \in DOMAIN disk.server_py => n \in DOMAIN disk'.server_py
        /\ ( /\ op = "stop"
             /\ last'.result = "stopped"
             /\ name \in DOMAIN disk.manifest
             /\ disk.manifest[name].auto_start
             /\ name \in DOMAIN disk.server_py ) =>
              /\ ~IsAiServerRunning(mcp', name)
              /\ \A outcome \in Outcomes :
                    ReviveEntry(NewManager, disk', name, outcome).event[1]
                        = "start_ai_server"
              /\ IsAiServerRunning(ReviveEntry(NewManager, disk', name, "ok").mcp, name)

C39_ManifestKeptUntilDelete == [][C39Step]_vars

\* a server created with auto_start, edited, and then stopped
C39_Witness ==
    /\ last.op = "stop"
    /\ last.result = "stopped"
    /\ last.name \in DOMAIN disk.manifest
    /\ disk.manifest[last.name].auto_start
    /\ disk.manifest[last.name].modified_at # disk.manifest[last.name].created_at
    /\ last.name \in DOMAIN disk.server_py
    /\ ~IsAiServerRunning(mcp, last.name)

=============================================================================
